---- MODULE Spec2Model ----
(***************************************************************************)
(* Model of the vcloud link resolver (process_vcloud_links_parallel.py and *)
(* its single-link variant test.py).                                       *)
(*                                                                         *)
(* A Python str is modelled as a sequence of code points and a bytes value *)
(* as a sequence of numbers in 0..255, so that base64 decoding, UTF-8      *)
(* decoding and percent-decoding are computed as the library computes them.*)
(* The text of every string constant is given in the comment beside it.    *)
(***************************************************************************)
EXTENDS Integers, Sequences, FiniteSets, TLC

\* ------------------------------------------------------------------------
\* Text helpers: optional values, substring search, character classes
\* ------------------------------------------------------------------------

\* Python None (no regex match, no header) and a present value.
None == [ok |-> FALSE, val |-> <<>>]
Some(v) == [ok |-> TRUE, val |-> v]

\* Binds the value v to the parameter of Body, as a local variable of the
\* code holds a value computed once.
With(v, Body(_)) == Body(v)

Min(S) == CHOOSE x \in S : \A y \in S : x <= y

\* The 1-based indices of s, in order.
Indices(s) == [i \in 1..Len(s) |-> i]

\* s[i:].startswith(pat), with 1-based i.
StartsAt(s, pat, i) ==
    /\ i >= 1
    /\ i + Len(pat) - 1 <= Len(s)
    /\ SubSeq(s, i, i + Len(pat) - 1) = pat

\* Python's "pat in s".
Contains(s, pat) == \E i \in 1..(Len(s) + 1) : StartsAt(s, pat, i)

\* \s of a str pattern (the Unicode whitespace below U+0100).
WS == {9, 10, 11, 12, 13, 28, 29, 30, 31, 32, 133, 160}

\* The excluded sets of the negated character classes the code uses.
ExclUrlChar == WS \cup {34, 39, 60, 62}            \* [^\s"<>']
ExclRefresh == WS \cup {34, 38, 39, 60, 62}        \* [^'"&\s<>]
ExclRawStart == WS \cup {34, 35, 38, 39, 60, 62}   \* [^&\s'"<>#]
ExclSlash == {47}                                  \* [^/]
ExclAmp == {38}                                    \* [^&]

\* The last index of the longest run of characters outside Excl that starts
\* at i (i - 1 when the run is empty).
RunEnd(s, i, Excl) ==
    With({k \in i..Len(s) : s[k] \in Excl}, LAMBDA bad :
        IF bad = {} THEN Len(s) ELSE Min(bad) - 1)

\* re.search(r'<one of Prefixes>([^Excl]{min,})', s): group 1 of the leftmost
\* match, greedy. All prefixes have the length plen.
ReGroupAt(s, Prefixes, plen, Excl, min) ==
    With({i \in 1..Len(s) :
             /\ \E p \in Prefixes : StartsAt(s, p, i)
             /\ RunEnd(s, i + plen, Excl) - (i + plen) + 1 >= min}, LAMBDA I :
        IF I = {} THEN None
        ELSE Some(SubSeq(s, Min(I) + plen, RunEnd(s, Min(I) + plen, Excl))))

ReGroup(s, Prefixes, Excl, min) ==
    ReGroupAt(s, Prefixes, Len(CHOOSE p \in Prefixes : TRUE), Excl, min)

\* re.search(r'<prefix>[^Excl]*<lit>[^Excl]*', s).group(0), where every
\* character of lit is outside Excl: the leftmost prefix whose following run
\* holds lit; the greedy tail then extends to the end of that run.
ReUrlWith(s, prefix, lit, Excl) ==
    With({i \in 1..Len(s) :
             /\ StartsAt(s, prefix, i)
             /\ Contains(SubSeq(s, i + Len(prefix),
                                RunEnd(s, i + Len(prefix), Excl)), lit)}, LAMBDA I :
        IF I = {} THEN None
        ELSE Some(SubSeq(s, Min(I), RunEnd(s, Min(I) + Len(prefix), Excl))))

\* ------------------------------------------------------------------------
\* Payload codec: base64.b64decode, bytes.decode('utf-8'), unquote
\* ------------------------------------------------------------------------

\* The value of a base64 alphabet character, 64 for any other character.
B64Val(c) ==
    IF c >= 65 /\ c <= 90 THEN c - 65           \* A-Z
    ELSE IF c >= 97 /\ c <= 122 THEN c - 71     \* a-z
    ELSE IF c >= 48 /\ c <= 57 THEN c + 4       \* 0-9
    ELSE IF c = 43 THEN 62                      \* +
    ELSE IF c = 47 THEN 63                      \* /
    ELSE 64

\* A character of the base64 alphabet ('=' is none).
B64IsData(c) == B64Val(c) < 64

\* binascii.a2b_base64, the state of its loop at index i: quad_pos is the
\* number of alphabet characters before i modulo 4, pads the number of '='
\* up to i since the last alphabet character.
B64QuadPos(s, i) == Cardinality({k \in 1..(i - 1) : B64IsData(s[k])}) % 4
B64Pads(s, i) ==
    Cardinality({k \in 1..i : s[k] = 61 /\ \A m \in k..i : ~B64IsData(s[m])})

\* The indices at which a '=' pads a quad out: the loop ends at the first.
B64Stops(s) ==
    {i \in 1..Len(s) : /\ s[i] = 61
                       /\ B64QuadPos(s, i) >= 2
                       /\ B64QuadPos(s, i) + B64Pads(s, i) >= 4}

\* The j-th byte that the alphabet characters quad encode.
B64Byte(quad, j) ==
    With(4 * ((j - 1) \div 3), LAMBDA q :
        IF (j - 1) % 3 = 0
        THEN B64Val(quad[q + 1]) * 4 + B64Val(quad[q + 2]) \div 16
        ELSE IF (j - 1) % 3 = 1
        THEN (B64Val(quad[q + 2]) % 16) * 16 + B64Val(quad[q + 3]) \div 4
        ELSE (B64Val(quad[q + 3]) % 4) * 64 + B64Val(quad[q + 4]))

\* The number of bytes that n alphabet characters encode.
B64OutLen(n) == 3 * (n \div 4) + (IF n % 4 >= 2 THEN (n % 4) - 1 ELSE 0)

\* binascii.a2b_base64 in its default (non-strict) mode: characters outside
\* the alphabet are skipped, '=' ends the data once a quad is padded out,
\* and an unfinished quad at the end of the input is an error.
a2b_base64(s) ==
    With(B64Stops(s), LAMBDA stops :
    With(SelectSeq(SubSeq(s, 1, IF stops = {} THEN Len(s) ELSE Min(stops)),
                   B64IsData), LAMBDA quad :
        IF stops = {} /\ Len(quad) % 4 # 0 THEN None
        ELSE Some([j \in 1..B64OutLen(Len(quad)) |-> B64Byte(quad, j)])))

\* base64.b64decode(s) for a str s: s must be ASCII, then a2b_base64.
b64decode(s) ==
    IF \E i \in 1..Len(s) : s[i] >= 128 THEN None
    ELSE a2b_base64(s)

\* UTF-8: the number of continuation bytes a lead byte announces (-1 for a
\* byte that cannot start a sequence) and the range of its first
\* continuation byte.
Utf8Need(b) ==
    IF b < 128 THEN 0
    ELSE IF b >= 194 /\ b <= 223 THEN 1
    ELSE IF b >= 224 /\ b <= 239 THEN 2
    ELSE IF b >= 240 /\ b <= 244 THEN 3
    ELSE -1

Utf8Lo(b) == IF b = 224 THEN 160 ELSE IF b = 240 THEN 144 ELSE 128
Utf8Hi(b) == IF b = 237 THEN 159 ELSE IF b = 244 THEN 143 ELSE 191

\* The byte k places after the lead byte at i is a continuation byte the
\* lead byte admits.
Utf8Cont(bs, i, k) ==
    /\ i + k <= Len(bs)
    /\ IF k = 1 THEN bs[i + k] >= Utf8Lo(bs[i]) /\ bs[i + k] <= Utf8Hi(bs[i])
                ELSE bs[i + k] >= 128 /\ bs[i + k] <= 191

\* How many of the continuation bytes of the sequence starting at i are
\* present and valid.
Utf8Valid(bs, i) ==
    With({k \in 1..Utf8Need(bs[i]) : ~Utf8Cont(bs, i, k)}, LAMBDA bad :
        IF bad = {} THEN Utf8Need(bs[i]) ELSE Min(bad) - 1)

\* The sequence starting at i is complete and well formed.
Utf8Whole(bs, i) == Utf8Need(bs[i]) >= 0 /\ Utf8Valid(bs, i) = Utf8Need(bs[i])

\* The code point of the well-formed sequence starting at i.
Utf8Point(bs, i) ==
    IF Utf8Need(bs[i]) = 0 THEN bs[i]
    ELSE IF Utf8Need(bs[i]) = 1 THEN (bs[i] - 192) * 64 + (bs[i + 1] - 128)
    ELSE IF Utf8Need(bs[i]) = 2
    THEN (bs[i] - 224) * 4096 + (bs[i + 1] - 128) * 64 + (bs[i + 2] - 128)
    ELSE (bs[i] - 240) * 262144 + (bs[i + 1] - 128) * 4096
         + (bs[i + 2] - 128) * 64 + (bs[i + 3] - 128)

\* The byte at i is a continuation byte taken by the sequence a lead byte
\* shortly before it starts (a lead byte is never itself taken).
Utf8Taken(bs, i) ==
    \E k \in 1..3 : /\ i - k >= 1
                    /\ Utf8Need(bs[i - k]) >= k
                    /\ Utf8Valid(bs, i - k) >= k

\* bytes.decode('utf-8', errors): errors is "strict" (an ill-formed sequence
\* fails) or "replace" (each maximal ill-formed part becomes U+FFFD).
utf8_decode(bs, errors) ==
    With(SelectSeq(Indices(bs), LAMBDA i : ~Utf8Taken(bs, i)), LAMBDA starts :
        IF errors = "strict" /\ \E j \in 1..Len(starts) : ~Utf8Whole(bs, starts[j])
        THEN None
        ELSE Some([j \in 1..Len(starts) |->
                      IF Utf8Whole(bs, starts[j]) THEN Utf8Point(bs, starts[j])
                      ELSE 65533]))

\* base64.b64decode(s).decode('utf-8') inside try/except: the decoded text,
\* or None where the code raises ValueError.
b64decode_utf8(s) ==
    With(b64decode(s), LAMBDA b :
        IF b.ok THEN utf8_decode(b.val, "strict") ELSE None)

IsHex(c) == \/ c >= 48 /\ c <= 57
            \/ c >= 65 /\ c <= 70
            \/ c >= 97 /\ c <= 102

HexVal(c) == IF c <= 57 THEN c - 48 ELSE IF c <= 70 THEN c - 55 ELSE c - 87

\* A '%' followed by two hex digits starts at i.
IsEscape(s, i) ==
    /\ i >= 1
    /\ i + 2 <= Len(s)
    /\ s[i] = 37
    /\ IsHex(s[i + 1])
    /\ IsHex(s[i + 2])

\* urllib.parse.unquote_to_bytes on an ASCII run: each '%' followed by two
\* hex digits becomes a byte, every other character is kept.
unquote_to_bytes(s) ==
    With(SelectSeq(Indices(s), LAMBDA i : ~IsEscape(s, i - 1) /\ ~IsEscape(s, i - 2)),
         LAMBDA kept :
        [j \in 1..Len(kept) |->
            IF IsEscape(s, kept[j])
            THEN HexVal(s[kept[j] + 1]) * 16 + HexVal(s[kept[j] + 2])
            ELSE s[kept[j]]])

\* One ASCII run of unquote: unquote_to_bytes, then UTF-8 with
\* errors='replace'.
UnquoteRun(s) == utf8_decode(unquote_to_bytes(s), "replace").val

\* urllib.parse.unquote: every run of ASCII characters goes through
\* unquote_to_bytes and is decoded as UTF-8 with errors='replace'; every
\* non-ASCII character is kept.
RECURSIVE unquote(_)
unquote(s) ==
    With({i \in 1..Len(s) : s[i] >= 128}, LAMBDA I :
        IF I = {} THEN UnquoteRun(s)
        ELSE UnquoteRun(SubSeq(s, 1, Min(I) - 1)) \o <<s[Min(I)]>>
             \o unquote(SubSeq(s, Min(I) + 1, Len(s))))

\* str.replace('+', ' ')
PlusToSpace(s) == [i \in 1..Len(s) |-> IF s[i] = 43 THEN 32 ELSE s[i]]

\* urllib.parse.unquote_plus
unquote_plus(s) == unquote(PlusToSpace(s))

\* ------------------------------------------------------------------------
\* urllib.parse.urlparse and parse_qs, as far as the code reads their result
\* ------------------------------------------------------------------------

RECURSIVE LStrip(_)
\* url.lstrip(_WHATWG_C0_CONTROL_OR_SPACE)
LStrip(s) == IF s # <<>> /\ Head(s) <= 32 THEN LStrip(Tail(s)) ELSE s

\* The characters urlsplit removes anywhere in the URL: tab, CR, LF.
IsUnsafeUrlChar(c) == c \in {9, 10, 13}
RemoveUnsafe(s) == SelectSeq(s, LAMBDA c : ~IsUnsafeUrlChar(c))

IsAlpha(c) == (c >= 65 /\ c <= 90) \/ (c >= 97 /\ c <= 122)
IsSchemeChar(c) == IsAlpha(c) \/ (c >= 48 /\ c <= 57) \/ c \in {43, 45, 46}
Lower(s) == [i \in 1..Len(s) |-> IF s[i] >= 65 /\ s[i] <= 90 THEN s[i] + 32 ELSE s[i]]

\* The first index of a character of Delims in s, Len(s) + 1 if none.
FirstOf(s, Delims) ==
    With({i \in 1..Len(s) : s[i] \in Delims}, LAMBDA I :
        IF I = {} THEN Len(s) + 1 ELSE Min(I))

\* urlsplit after the scheme: netloc and query of what follows the colon.
UrlAfterScheme(scheme, rest) ==
    With(StartsAt(rest, <<47, 47>>, 1), LAMBDA hasNetloc :
    With(SubSeq(rest, 3, Len(rest)), LAMBDA afterSlashes :
    With(FirstOf(afterSlashes, {47, 63, 35}), LAMBDA delim :
    With(IF hasNetloc THEN SubSeq(afterSlashes, 1, delim - 1) ELSE <<>>, LAMBDA netloc :
    With(IF hasNetloc THEN SubSeq(afterSlashes, delim, Len(afterSlashes)) ELSE rest,
         LAMBDA rest2 :
    With(SubSeq(rest2, 1, FirstOf(rest2, {35}) - 1), LAMBDA noFrag :
        [ok |-> (91 \in {netloc[k] : k \in 1..Len(netloc)})
                   = (93 \in {netloc[k] : k \in 1..Len(netloc)}),
         scheme |-> scheme,
         netloc |-> netloc,
         query |-> SubSeq(noFrag, FirstOf(noFrag, {63}) + 1, Len(noFrag))]))))))

\* urlparse(url): scheme, netloc and query of the result. ok is FALSE where
\* urlsplit raises ValueError (a netloc with an unbalanced square bracket).
urlparse(url0) ==
    With(RemoveUnsafe(LStrip(url0)), LAMBDA url :
    With(FirstOf(url, {58}), LAMBDA colon :
    With(/\ colon > 1
         /\ colon <= Len(url)
         /\ IsAlpha(url[1])
         /\ \A k \in 1..(colon - 1) : IsSchemeChar(url[k]), LAMBDA hasScheme :
        UrlAfterScheme(IF hasScheme THEN Lower(SubSeq(url, 1, colon - 1)) ELSE <<>>,
                       IF hasScheme THEN SubSeq(url, colon + 1, Len(url)) ELSE url))))

RECURSIVE Split(_, _)
\* s.split(sep) for a one-character separator.
Split(s, sep) ==
    With(FirstOf(s, {sep}), LAMBDA i :
        IF i > Len(s) THEN <<s>>
        ELSE <<SubSeq(s, 1, i - 1)>> \o Split(SubSeq(s, i + 1, Len(s)), sep))

\* The name and the value of a field of a query string, plus- and
\* percent-decoded.
QsName(f) == unquote(PlusToSpace(SubSeq(f, 1, FirstOf(f, {61}) - 1)))
QsValue(f) == unquote(PlusToSpace(SubSeq(f, FirstOf(f, {61}) + 1, Len(f))))

\* parse_qs(qs).get(name, []): the values of the fields called name, in
\* order. Fields without '=' or with a blank value are dropped
\* (keep_blank_values=False).
parse_qs_get(qs, name) ==
    With(SelectSeq(IF qs = <<>> THEN <<>> ELSE Split(qs, 38),
                   LAMBDA f : FirstOf(f, {61}) < Len(f) /\ QsName(f) = name),
         LAMBDA kept :
        [i \in 1..Len(kept) |-> QsValue(kept[i])])

\* ------------------------------------------------------------------------
\* State
\* ------------------------------------------------------------------------

VARIABLES
    \* follow_redirect_chain_and_extract_start: its locals and its position
    current_url,          \* the URL the next request goes to
    redirect_count,       \* hops taken so far
    response,             \* the response of the last request: url, location, text
    final_redirect_url,   \* str(response.url) of the terminal response
    final_response_php,   \* the terminal response
    f_pc,                 \* "loop", "extract", "returned" or "raised"
    f_exit,               \* how the loop was left: "none", "break" or "bound"
    f_error,              \* why the call raised: "none", "request", "urlparse", "no_start"
    f_result,             \* the value returned
    gets,                 \* the number of GET requests issued so far
    f_client              \* the httpx.Client of line 250 (0: none yet)

followerVars == <<current_url, redirect_count, response, final_redirect_url,
                  final_response_php, f_pc, f_exit, f_error, f_result, gets,
                  f_client>>

VARIABLES
    \* get_hubcloud_url_from_vcloud: its locals and its position
    source_link,          \* the argument the function was called with
    vcloud_url,           \* the link the initial fetch goes to
    html_response,        \* the body of the last page fetched
    hubcloud_url,         \* the URL built from the id parameter
    final_url,            \* the URL the redirect-following request landed on
    p_pc,                 \* "start", "fetch", "secondary", "returned" or "raised"
    p_error,              \* why the call raised ("none" if it did not)
    p_result,             \* the URL returned
    requests,             \* the URLs requested so far, in order
    p_client,             \* the httpx.Client of line 58 or 74 (0: none yet)
    client_of             \* the client each request of requests was issued on

protocolVars == <<source_link, vcloud_url, html_response, hubcloud_url, final_url,
                  p_pc, p_error, p_result, requests, p_client, client_of>>

VARIABLES
    \* process_json_file: the run of the batch engine
    data,                 \* the document loaded from the input file
    progress,             \* progress["processed"], the record held in memory
    tasks,                \* the futures submitted, in submission order
    completed_tasks,      \* the counter of futures handled by the main loop
    current,              \* the index of the future the main loop is handling
    pc,                   \* the position of the main thread
    lock_held,            \* whether progress_lock is held
    file,                 \* the checkpoint file on disk
    output,               \* the output document written at the end of a run
    \* history of the run, read by the properties only
    loaded,               \* what load_progress returned when the run started
    persisted,            \* the record of the last write that was finished
    saves,                \* the calls of save_progress that returned in this run
    last_failed           \* the links the run before left failed and unrecorded

engineVars == <<data, progress, tasks, completed_tasks, current, pc, lock_held, file,
                output, loaded, persisted, saves, last_failed>>

VARIABLES
    \* find_vcloud_links and the two updaters called on a document
    u_data,               \* the document object the functions are called on
    results_map,          \* the mapping from links to tokens
    links_list,           \* what find_vcloud_links returned
    u_raised,             \* whether the update raised
    u_mode,               \* the updater applied: "none", "update" or "substitute"
    u_pc,                 \* "idle", "start", "located", "updated" or "twice"
    \* history, read by the properties only
    u_input,              \* the document as it was given
    u_once                \* the document after the first application

updaterVars == <<u_data, results_map, links_list, u_raised, u_mode, u_pc, u_input,
                 u_once>>

VARIABLES
    \* process_vcloud_link: the calls a worker makes, one link after another
    l_pc,                 \* "idle", "protocol", "sleep", "follower", "returned" or "none"
    delay,                \* the seconds of time.sleep(5) that have passed
    calls,                \* the calls of process_vcloud_link started so far
    used_before           \* the clients the earlier calls created

linkVars == <<l_pc, delay, calls, used_before>>

VARIABLES
    \* the functions of test.py and of the batch runner called on one input
    v_mode,               \* "protocol" or "follower": the pair of functions called
    v_input,              \* the argument: a source link, or a decoded URL
    v_script,             \* the answers of the network, in order
    v_batch,              \* the outcome in process_vcloud_links_parallel.py
    v_debug,              \* the outcome in test.py
    v_pc                  \* "idle", "start" or "done"

variantVars == <<v_mode, v_input, v_script, v_batch, v_debug, v_pc>>

vars == <<followerVars, protocolVars, engineVars, updaterVars, linkVars,
          variantVars>>

nonFollowerVars == <<protocolVars, engineVars, updaterVars, linkVars, variantVars>>
nonProtocolVars == <<followerVars, engineVars, updaterVars, linkVars, variantVars>>
nonEngineVars == <<followerVars, protocolVars, updaterVars, linkVars, variantVars>>
nonUpdaterVars == <<followerVars, protocolVars, engineVars, linkVars, variantVars>>
nonLinkVars == <<engineVars, updaterVars, variantVars>>
nonVariantVars == <<followerVars, protocolVars, engineVars, updaterVars, linkVars>>

\* httpx.Client(): an object that is none of the clients created before, by
\* this call or by an earlier one.
ClientsOfCall ==
    ({p_client, f_client} \cup {client_of[i] : i \in 1..Len(client_of)}) \ {0}
NewClient ==
    With(ClientsOfCall \cup used_before \cup {0}, LAMBDA made :
        1 + CHOOSE c \in made : \A d \in made : d <= c)

\* ------------------------------------------------------------------------
\* Redirect-chain follower
\* ------------------------------------------------------------------------

max_redirects == 10

S_http == <<104, 116, 116, 112>>                \* "http"
S_https == <<104, 116, 116, 112, 115>>              \* "https"
S_http_prefix == <<104, 116, 116, 112, 58, 47, 47>>      \* "http://"
S_https_prefix == <<104, 116, 116, 112, 115, 58, 47, 47>>    \* "https://"
S_colon_slashes == <<58, 47, 47>>        \* "://"
S_url_eq == <<117, 114, 108, 61>>              \* "url="
S_start == <<115, 116, 97, 114, 116>>              \* "start"
S_start_eq == <<115, 116, 97, 114, 116, 61>>          \* "start="
S_q_start_eq == <<63, 115, 116, 97, 114, 116, 61>>       \* "?start="
S_amp_start_eq == <<38, 115, 116, 97, 114, 116, 61>>     \* "&start="

\* A response as the code reads it: str(response.url), the Location header
\* (None when absent) and response.text. Without redirect following,
\* response.url is the URL that was requested.
NoResponse == [url |-> <<>>, location |-> None, text |-> <<>>]
Response(url, net) == [url |-> url, location |-> net.location, text |-> net.text]

\* "if location:": the header is present and not empty.
Truthy(location) == location.ok /\ location.val # <<>>

\* client.get(url) sends a request only to an absolute http or https URL;
\* for any other URL it raises before anything is sent.
CanRequest(url) ==
    With(urlparse(url), LAMBDA p :
        p.ok /\ p.scheme \in {S_http, S_https} /\ p.netloc # <<>>)

\* The loop condition with <= in place of <: one request more.
LoopCondOffByOne(count) == count <= max_redirects

\* The loop condition "while redirect_count < max_redirects".
LoopCond(count) == count < max_redirects

\* re.search(r'url=([^\'"&\s<>]+)', response.text)
meta_refresh_match(text) == ReGroup(text, {S_url_eq}, ExclRefresh, 1)

\* The hop with the refresh directive of the body looked at before the
\* Location header.
FollowHopRefreshFirst(resp) ==
    With(meta_refresh_match(resp.text), LAMBDA m :
        IF m.ok THEN [kind |-> "meta", url |-> unquote(m.val)]
        ELSE IF Truthy(resp.location)
        THEN [kind |-> "location", url |-> resp.location.val]
        ELSE [kind |-> "terminal", url |-> <<>>])

\* What one iteration of the loop does with the response it received: follow
\* the Location header, else follow the body's url= target (percent-decoded,
\* and prefixed with the scheme and host of the response's URL unless it
\* starts with http:// or https://), else stop on this response. "raise"
\* where urlparse raises.
FollowHop(resp) ==
    IF Truthy(resp.location)
    THEN [kind |-> "location", url |-> resp.location.val]
    ELSE With(meta_refresh_match(resp.text), LAMBDA m :
         With(unquote(m.val), LAMBDA meta_url :
         With(urlparse(resp.url), LAMBDA parsed_base :
             IF ~m.ok THEN [kind |-> "terminal", url |-> <<>>]
             ELSE IF \/ StartsAt(meta_url, S_http_prefix, 1)
                     \/ StartsAt(meta_url, S_https_prefix, 1)
             THEN [kind |-> "meta", url |-> meta_url]
             ELSE IF ~parsed_base.ok THEN [kind |-> "raise", url |-> <<>>]
             ELSE [kind |-> "meta",
                   url |-> parsed_base.scheme \o S_colon_slashes
                           \o parsed_base.netloc \o meta_url])))

\* parse_qs(urlparse(final_redirect_url).query).get('start', [])
start_param_list(url) == parse_qs_get(urlparse(url).query, S_start)

\* re.search(r'start=([^\'"&\s<>]+)', final_response_php.text), unquoted
start_match(text) ==
    With(ReGroup(text, {S_start_eq}, ExclRefresh, 1), LAMBDA m :
        IF m.ok THEN Some(unquote(m.val)) ELSE None)

\* re.search(r'[?&]start=([^&\s\'"<>#]+)', final_redirect_url), unquoted
final_url_start_match(url) ==
    With(ReGroup(url, {S_q_start_eq, S_amp_start_eq}, ExclRawStart, 1), LAMBDA m :
        IF m.ok THEN Some(unquote(m.val)) ELSE None)

\* The extraction with the body searched before the query of the URL.
ExtractStartBodyFirst(url, text) ==
    With(start_param_list(url), LAMBDA in_query :
    With(start_match(text), LAMBDA in_body :
        IF ~urlparse(url).ok THEN None
        ELSE IF in_body.ok THEN in_body
        ELSE IF in_query # <<>> THEN Some(in_query[1])
        ELSE final_url_start_match(url)))

\* The extraction from the terminal response: the value returned, or None
\* where the code raises ValueError.
ExtractStart(url, text) ==
    With(start_param_list(url), LAMBDA in_query :
    With(start_match(text), LAMBDA in_body :
        IF ~urlparse(url).ok THEN None
        ELSE IF in_query # <<>> THEN Some(in_query[1])
        ELSE IF in_body.ok THEN in_body
        ELSE final_url_start_match(url)))

\* follow_redirect_chain_and_extract_start(decoded_r_url) against a network
\* that answers the i-th request with script[i] (and fails any request
\* beyond the script): the value returned, or None where the call raises.
RECURSIVE FollowLoop(_, _, _, _, _)
FollowLoop(url, count, script, i, last) ==
    IF ~LoopCond(count) THEN ExtractStart(last.url, last.text)
    ELSE IF ~CanRequest(url) \/ i > Len(script) THEN None
    ELSE IF script[i].raises THEN None
    ELSE With(Response(url, script[i]), LAMBDA resp :
         With(FollowHop(resp), LAMBDA hop :
             IF hop.kind \in {"location", "meta"}
             THEN FollowLoop(hop.url, count + 1, script, i + 1, resp)
             ELSE IF hop.kind = "raise" THEN None
             ELSE ExtractStart(resp.url, resp.text)))

follow_redirect_chain_and_extract_start(decoded_r_url, script) ==
    FollowLoop(decoded_r_url, 0, script, 1, NoResponse)

\* --- the network the follower is run against -----------------------------

U_A == <<104, 116, 116, 112, 115, 58, 47, 47, 104, 46, 111, 110, 101, 47, 97>>                  \* "https://h.one/a"
U_B == <<104, 116, 116, 112, 115, 58, 47, 47, 104, 46, 111, 110, 101, 47, 98>>                  \* "https://h.one/b"
U_TOK1 == <<104, 116, 116, 112, 115, 58, 47, 47, 104, 46, 111, 110, 101, 47, 102, 63, 115, 116, 97, 114, 116, 61, 84, 79, 75, 49>>    \* "https://h.one/f?start=TOK1"
U_FRAG == <<104, 116, 116, 112, 115, 58, 47, 47, 104, 46, 111, 110, 101, 47, 102, 35, 63, 115, 116, 97, 114, 116, 61, 84, 79, 75, 50>>   \* "https://h.one/f#?start=TOK2"
U_BLANK == <<104, 116, 116, 112, 115, 58, 47, 47, 104, 46, 111, 110, 101, 47, 102, 63, 115, 116, 97, 114, 116, 61>>       \* "https://h.one/f?start="
U_REL == <<47, 114, 101, 108>>                           \* "/rel"
S_TOK1 == <<84, 79, 75, 49>>                          \* "TOK1"
S_TOK2 == <<84, 79, 75, 50>>                          \* "TOK2"
S_ABC123 == <<65, 66, 67, 49, 50, 51>>                      \* "ABC123"
S_A_plus_B == <<65, 43, 66>>                       \* "A+B"

T_META_ABS == <<60, 109, 101, 116, 97, 32, 99, 111, 110, 116, 101, 110, 116, 61, 34, 48, 59, 117, 114, 108, 61, 104, 116, 116, 112, 115, 58, 47, 47, 104, 46, 111, 110, 101, 47, 109, 34, 62>>   \* <meta content="0;url=https://h.one/m">
T_META_REL == <<60, 109, 101, 116, 97, 32, 99, 111, 110, 116, 101, 110, 116, 61, 34, 48, 59, 117, 114, 108, 61, 37, 50, 70, 103, 111, 34, 62>>             \* <meta content="0;url=%2Fgo">
T_META_BARE == <<60, 109, 101, 116, 97, 32, 99, 111, 110, 116, 101, 110, 116, 61, 34, 48, 59, 117, 114, 108, 61, 110, 101, 120, 116, 34, 62>>             \* <meta content="0;url=next">
T_META_QUOTED == <<60, 109, 101, 116, 97, 32, 99, 111, 110, 116, 101, 110, 116, 61, 34, 48, 59, 117, 114, 108, 61, 39, 47, 120, 39, 34, 62>>          \* <meta content="0;url='/x'">
T_BODY_START == <<60, 97, 32, 104, 114, 101, 102, 61, 34, 47, 100, 108, 63, 115, 116, 97, 114, 116, 61, 65, 66, 67, 49, 50, 51, 34, 62>>            \* <a href="/dl?start=ABC123">
T_BODY_ENC == <<103, 111, 40, 34, 115, 116, 97, 114, 116, 61, 65, 37, 50, 66, 66, 34, 41>>                        \* go("start=A%2BB")

Net(raises, location, text) == [raises |-> raises, location |-> location, text |-> text]

\* What the network may answer to one request of the follower.
FollowerResponses ==
    { Net(TRUE, None, <<>>),                 \* transport failure
      Net(FALSE, Some(U_B), <<>>),           \* redirect
      Net(FALSE, Some(U_B), T_META_ABS),     \* redirect whose body also holds url=
      Net(FALSE, Some(U_TOK1), <<>>),        \* redirect to a URL with ?start=
      Net(FALSE, Some(U_FRAG), T_BODY_START),
      Net(FALSE, Some(U_BLANK), <<>>),
      Net(FALSE, Some(U_REL), <<>>),         \* relative Location
      Net(FALSE, Some(<<>>), <<>>),          \* empty Location header
      Net(FALSE, None, T_META_ABS),
      Net(FALSE, None, T_META_REL),
      Net(FALSE, None, T_META_BARE),
      Net(FALSE, None, T_META_QUOTED),
      Net(FALSE, None, T_BODY_START),
      Net(FALSE, None, T_BODY_ENC),
      Net(FALSE, None, <<>>) }

FollowerInputs == {U_A, U_TOK1, U_FRAG, U_REL}

\* The follower before it is called.
FollowerIdle ==
    /\ current_url = <<>>
    /\ redirect_count = 0
    /\ response = NoResponse
    /\ final_redirect_url = <<>>
    /\ final_response_php = NoResponse
    /\ f_pc = "idle"
    /\ f_exit = "none"
    /\ f_error = "none"
    /\ f_result = <<>>
    /\ gets = 0
    /\ f_client = 0

FollowerInit ==
    /\ current_url \in FollowerInputs
    /\ redirect_count = 0
    /\ response = NoResponse
    /\ final_redirect_url = <<>>
    /\ final_response_php = NoResponse
    /\ f_pc = "loop"
    /\ f_exit = "none"
    /\ f_error = "none"
    /\ f_result = <<>>
    /\ gets = 0
    /\ f_client = 1

\* One iteration of the while loop: the request and what is done with its
\* response.
FollowGet ==
    /\ UNCHANGED <<nonFollowerVars, f_client>>
    /\ f_pc = "loop"
    /\ LoopCond(redirect_count)
    /\ UNCHANGED <<f_result>>
    /\ IF ~CanRequest(current_url)
       THEN /\ f_pc' = "raised"
            /\ f_error' = "request"
            /\ UNCHANGED <<current_url, redirect_count, response, final_redirect_url,
                           final_response_php, f_exit, gets>>
       ELSE \E net \in FollowerResponses :
            /\ gets' = gets + 1
            /\ IF net.raises
               THEN /\ f_pc' = "raised"
                    /\ f_error' = "request"
                    /\ UNCHANGED <<current_url, redirect_count, response,
                                   final_redirect_url, final_response_php, f_exit>>
               ELSE \E resp \in {Response(current_url, net)} :
                    \E hop \in {FollowHop(resp)} :
                        /\ response' = resp
                        /\ IF hop.kind \in {"location", "meta"}
                           THEN /\ current_url' = hop.url
                                /\ redirect_count' = redirect_count + 1
                                /\ UNCHANGED <<final_redirect_url, final_response_php,
                                               f_pc, f_exit, f_error>>
                           ELSE IF hop.kind = "raise"
                           THEN /\ f_pc' = "raised"
                                /\ f_error' = "urlparse"
                                /\ UNCHANGED <<current_url, redirect_count,
                                               final_redirect_url, final_response_php,
                                               f_exit>>
                           ELSE /\ final_response_php' = resp
                                /\ final_redirect_url' = resp.url
                                /\ f_pc' = "extract"
                                /\ f_exit' = "break"
                                /\ UNCHANGED <<current_url, redirect_count, f_error>>

\* The loop's else clause: the condition became false, the last response
\* received is taken as the terminal one.
FollowBound ==
    /\ UNCHANGED <<nonFollowerVars, f_client>>
    /\ f_pc = "loop"
    /\ ~LoopCond(redirect_count)
    /\ final_response_php' = response
    /\ final_redirect_url' = response.url
    /\ f_pc' = "extract"
    /\ f_exit' = "bound"
    /\ UNCHANGED <<current_url, redirect_count, response, f_error, f_result, gets>>

\* The extraction of the start parameter from the terminal response.
FollowExtract ==
    /\ UNCHANGED <<nonFollowerVars, f_client>>
    /\ f_pc = "extract"
    /\ \E r \in {ExtractStart(final_redirect_url, final_response_php.text)} :
           IF r.ok
           THEN /\ f_pc' = "returned"
                /\ f_result' = r.val
                /\ UNCHANGED f_error
           ELSE /\ f_pc' = "raised"
                /\ f_error' = IF urlparse(final_redirect_url).ok
                              THEN "no_start" ELSE "urlparse"
                /\ UNCHANGED f_result
    /\ UNCHANGED <<current_url, redirect_count, response, final_redirect_url,
                   final_response_php, f_exit, gets>>


\* ------------------------------------------------------------------------
\* Link resolution protocol: get_hubcloud_url_from_vcloud
\* ------------------------------------------------------------------------

S_api == <<47, 97, 112, 105, 47>>                                   \* "/api/"
S_href_vcloud == <<104, 114, 101, 102, 61, 34, 104, 116, 116, 112, 115, 58, 47, 47, 118, 99, 108, 111, 117, 100, 46, 122, 105, 112, 47>>      \* href="https://vcloud.zip/
S_vcloud_root == <<104, 116, 116, 112, 115, 58, 47, 47, 118, 99, 108, 111, 117, 100, 46, 122, 105, 112, 47>>             \* "https://vcloud.zip/"
S_cdn_amp == <<46, 99, 100, 110, 46, 97, 109, 112, 112, 114, 111, 106, 101, 99, 116, 46, 111, 114, 103>>                 \* ".cdn.ampproject.org"
S_ampproject == <<97, 109, 112, 112, 114, 111, 106, 101, 99, 116>>                       \* "ampproject"
S_foo == <<102, 111, 111, 47>>                                    \* "foo/"
S_q_id == <<63, 105, 100, 61>>                                   \* "?id="
S_amp_id == <<38, 105, 100, 61>>                                 \* "&id="
S_hubcloud_go == <<104, 116, 116, 112, 115, 58, 47, 47, 104, 117, 98, 99, 108, 111, 117, 100, 46, 111, 110, 101, 47, 116, 103, 47, 47, 103, 111, 63, 105, 100, 61>> \* "https://hubcloud.one/tg//go?id="
S_sorry == <<103, 111, 111, 103, 108, 101, 46, 99, 111, 109, 47, 115, 111, 114, 114, 121>>                      \* "google.com/sorry"
S_continue == <<99, 111, 110, 116, 105, 110, 117, 101, 61>>                          \* "continue="
S_re2 == <<114, 101, 50, 47>>                                    \* "re2/"
S_q_r == <<63, 114, 61>>                                     \* "?r="
S_amp_r == <<38, 114, 61>>                                   \* "&r="

\* A stage's outcome: the value it produced, or the reason it raised.
Ok(v) == [ok |-> TRUE, val |-> v, err |-> "none"]
Raise(e) == [ok |-> FALSE, val |-> <<>>, err |-> e]

\* "if '/api/' in vcloud_url"
IsApiStyle(url) == Contains(url, S_api)

\* re.search(r'href="(https://vcloud\.zip/[^\s\'\"<>]+)"', html_response):
\* the leftmost href="https://vcloud.zip/ that is followed by at least one
\* URL character and then by the closing double quote.
actual_url_match(html) ==
    With({i \in 1..Len(html) :
             /\ StartsAt(html, S_href_vcloud, i)
             /\ With(RunEnd(html, i + Len(S_href_vcloud), ExclUrlChar), LAMBDA e :
                     /\ e >= i + Len(S_href_vcloud)
                     /\ e + 1 <= Len(html)
                     /\ html[e + 1] = 34)}, LAMBDA I :
        IF I = {} THEN None
        ELSE Some(S_vcloud_root
                  \o SubSeq(html, Min(I) + Len(S_href_vcloud),
                            RunEnd(html, Min(I) + Len(S_href_vcloud), ExclUrlChar))))

\* Stage 1 that checks the anchor but goes on with the API link.
ApiStageKeepLink(link, html) ==
    IF actual_url_match(html).ok THEN Ok(link) ELSE Raise("no_anchor")

\* Stage 1, after the API page was fetched: the link the protocol goes on
\* with.
ApiStage(link, html) ==
    With(actual_url_match(html), LAMBDA m :
        IF m.ok THEN Ok(m.val) ELSE Raise("no_anchor"))

\* Stages 2 and 3 on the page fetched from the link: the AMP URL (the exact
\* .cdn.ampproject.org pattern, else the first URL holding "ampproject"),
\* the base64 segment after foo/, the id parameter of the decoded URL, and
\* the hubcloud URL built from it.
AmpStage(html) ==
    With(ReUrlWith(html, S_https_prefix, S_cdn_amp, ExclUrlChar),
         LAMBDA amp_url_match :
    With(ReUrlWith(html, S_https_prefix, S_ampproject, ExclUrlChar),
         LAMBDA all_amp_urls :
    With(IF amp_url_match.ok THEN amp_url_match.val ELSE all_amp_urls.val,
         LAMBDA amp_url :
    With(ReGroup(amp_url, {S_foo}, ExclSlash, 0), LAMBDA foo_match :
    With(b64decode_utf8(foo_match.val), LAMBDA decoded_url :
    With(ReGroup(decoded_url.val, {S_q_id, S_amp_id}, ExclAmp, 0), LAMBDA id_match :
        IF ~amp_url_match.ok /\ ~all_amp_urls.ok THEN Raise("no_amp")
        ELSE IF ~foo_match.ok THEN Raise("no_foo")
        ELSE IF ~decoded_url.ok THEN Raise("decode")
        ELSE IF ~id_match.ok THEN Raise("no_id")
        ELSE Ok(S_hubcloud_go \o id_match.val)))))))

\* The r parameter, unquote_plus-ed and base64-decoded (lines 197-206 and
\* their copies).
DecodeR(r_param) ==
    With(b64decode_utf8(unquote_plus(r_param)), LAMBDA decoded_r :
        IF decoded_r.ok THEN Ok(decoded_r.val) ELSE Raise("decode_r"))

\* Stage 6 with the re2 payload percent-decoded by unquote, which keeps the
\* plus signs.
Stage6PlusKept(url) ==
    With(ReGroup(url, {S_re2}, ExclSlash, 1), LAMBDA re2_match :
    With(b64decode_utf8(unquote(re2_match.val)), LAMBDA decoded_re2 :
    With(ReGroup(decoded_re2.val, {S_q_r, S_amp_r}, ExclAmp, 0), LAMBDA r_inner :
    With(ReGroup(url, {S_q_r, S_amp_r}, ExclAmp, 0), LAMBDA r_outer :
        IF re2_match.ok
        THEN IF ~decoded_re2.ok THEN Raise("decode_re2")
             ELSE IF ~r_inner.ok THEN Raise("no_r")
             ELSE DecodeR(r_inner.val)
        ELSE IF r_outer.ok THEN DecodeR(r_outer.val)
        ELSE Ok(url)))))

\* Stage 6 on the landed URL of a page that is no captcha (lines 178-224).
Stage6(url) ==
    With(ReGroup(url, {S_re2}, ExclSlash, 1), LAMBDA re2_match :
    With(b64decode_utf8(unquote_plus(re2_match.val)), LAMBDA decoded_re2 :
    With(ReGroup(decoded_re2.val, {S_q_r, S_amp_r}, ExclAmp, 0), LAMBDA r_inner :
    With(ReGroup(url, {S_q_r, S_amp_r}, ExclAmp, 0), LAMBDA r_outer :
        IF re2_match.ok
        THEN IF ~decoded_re2.ok THEN Raise("decode_re2")
             ELSE IF ~r_inner.ok THEN Raise("no_r")
             ELSE DecodeR(r_inner.val)
        ELSE IF r_outer.ok THEN DecodeR(r_outer.val)
        ELSE Ok(url)))))

\* The captcha branch without its re2 case: only the r parameter of the
\* continue URL is looked at.
Stage6CaptchaNoRe2(actual_url) ==
    With(ReGroup(actual_url, {S_q_r, S_amp_r}, ExclAmp, 0), LAMBDA r_outer :
        IF r_outer.ok THEN DecodeR(r_outer.val) ELSE Ok(actual_url))

\* The copy of stage 6 inside the captcha branch, on the decoded continue
\* URL (lines 128-174).
Stage6Captcha(actual_url) ==
    With(ReGroup(actual_url, {S_re2}, ExclSlash, 1), LAMBDA re2_match :
    With(b64decode_utf8(unquote_plus(re2_match.val)), LAMBDA decoded_re2 :
    With(ReGroup(decoded_re2.val, {S_q_r, S_amp_r}, ExclAmp, 0), LAMBDA r_inner :
    With(ReGroup(actual_url, {S_q_r, S_amp_r}, ExclAmp, 0), LAMBDA r_outer :
        IF re2_match.ok
        THEN IF ~decoded_re2.ok THEN Raise("decode_re2")
             ELSE IF ~r_inner.ok THEN Raise("no_r")
             ELSE DecodeR(r_inner.val)
        ELSE IF r_outer.ok THEN DecodeR(r_outer.val)
        ELSE Ok(actual_url)))))

\* Stages 5 and 6 on the URL the secondary fetch landed on.
LandedStage(url) ==
    With(ReGroup(url, {S_continue}, ExclAmp, 0), LAMBDA continue_match :
        IF Contains(url, S_sorry)
        THEN IF continue_match.ok THEN Stage6Captcha(unquote(continue_match.val))
             ELSE Raise("no_continue")
        ELSE Stage6(url))

\* What the network answers to a request of the protocol: a failure, or a
\* page (text) reached at the URL landed (the URL the request ended on after
\* the redirects httpx followed; the code reads it for the secondary fetch
\* only).
Page(text) == [raises |-> FALSE, text |-> text, landed |-> <<>>]
Landed(url) == [raises |-> FALSE, text |-> <<>>, landed |-> url]
Failure == [raises |-> TRUE, text |-> <<>>, landed |-> <<>>]

\* A GET of the protocol: the answer, or a failure where client.get raises.
Get(url, script, i) ==
    IF ~CanRequest(url) \/ i > Len(script) THEN Failure ELSE script[i]

\* The URLs a call has passed to client.get so far, with one more.
Requested(requests_so_far, url) ==
    IF CanRequest(url) THEN Append(requests_so_far, url) ELSE requests_so_far

\* get_hubcloud_url_from_vcloud(vcloud_url) against a network that answers
\* the i-th request with script[i]: the outcome and the URLs requested.
get_hubcloud_url_from_vcloud(link, script) ==
    With(IsApiStyle(link), LAMBDA api :
    With(IF api THEN 2 ELSE 1, LAMBDA n :
    With(Get(link, script, 1), LAMBDA r1 :
    With(IF ~api THEN Ok(link)
         ELSE IF r1.raises THEN Raise("request")
         ELSE ApiStage(link, r1.text), LAMBDA s1 :
    With(Get(s1.val, script, n), LAMBDA r2 :
    With(IF ~s1.ok THEN s1
         ELSE IF r2.raises THEN Raise("request")
         ELSE AmpStage(r2.text), LAMBDA s2 :
    With(Get(s2.val, script, n + 1), LAMBDA r3 :
    With(IF ~s2.ok THEN s2
         ELSE IF r3.raises THEN Raise("request")
         ELSE LandedStage(r3.landed), LAMBDA s3 :
    With(IF api THEN Requested(<<>>, link) ELSE <<>>, LAMBDA q1 :
    With(IF s1.ok THEN Requested(q1, s1.val) ELSE q1, LAMBDA q2 :
        [ok |-> s3.ok, val |-> s3.val, err |-> s3.err,
         requests |-> IF s2.ok THEN Requested(q2, s2.val) ELSE q2]))))))))))

\* --- the network the protocol is run against -----------------------------

L_A == <<104, 116, 116, 112, 115, 58, 47, 47, 118, 99, 108, 111, 117, 100, 46, 122, 105, 112, 47, 97, 49>>          \* "https://vcloud.zip/a1"
L_B == <<104, 116, 116, 112, 115, 58, 47, 47, 118, 99, 108, 111, 117, 100, 46, 122, 105, 112, 47, 98, 50>>          \* "https://vcloud.zip/b2"
L_API == <<104, 116, 116, 112, 115, 58, 47, 47, 118, 99, 108, 111, 117, 100, 46, 122, 105, 112, 47, 97, 112, 105, 47, 102, 49>>    \* "https://vcloud.zip/api/f1"

H_ANCHOR == <<60, 97, 32, 104, 114, 101, 102, 61, 34, 104, 116, 116, 112, 115, 58, 47, 47, 118, 99, 108, 111, 117, 100, 46, 122, 105, 112, 47, 97, 49, 34, 62, 103, 111, 60, 47, 97, 62>>           \* <a href="https://vcloud.zip/a1">go</a>
H_ANCHOR_SELF == <<60, 97, 32, 104, 114, 101, 102, 61, 34, 104, 116, 116, 112, 115, 58, 47, 47, 118, 99, 108, 111, 117, 100, 46, 122, 105, 112, 47, 97, 112, 105, 47, 102, 49, 34, 62, 109, 101, 60, 47, 97, 62>>  \* <a href="https://vcloud.zip/api/f1">me</a>
H_ANCHOR_SQ == <<60, 97, 32, 104, 114, 101, 102, 61, 39, 104, 116, 116, 112, 115, 58, 47, 47, 118, 99, 108, 111, 117, 100, 46, 122, 105, 112, 47, 97, 49, 39, 62, 103, 111, 60, 47, 97, 62>>          \* <a href='https://vcloud.zip/a1'>go</a>
H_NONE == <<60, 112, 62, 103, 111, 110, 101, 60, 47, 112, 62>>                                          \* <p>gone</p>
\* the segment after foo/ is base64 of "z?id=k7"
H_AMP == <<60, 97, 32, 104, 114, 101, 102, 61, 34, 104, 116, 116, 112, 115, 58, 47, 47, 120, 45, 121, 46, 99, 100, 110, 46, 97, 109, 112, 112, 114, 111, 106, 101, 99, 116, 46, 111, 114, 103, 47, 99, 47, 115, 47, 102, 111, 111, 47, 101, 106, 57, 112, 90, 68, 49, 114, 78, 119, 61, 61, 34, 62>>   \* <a href="https://x-y.cdn.ampproject.org/c/s/foo/ej9pZD1rNw==">
\* no subdomain of cdn.ampproject.org, found by the loose pattern
H_AMP_LOOSE == <<60, 97, 32, 104, 114, 101, 102, 61, 34, 104, 116, 116, 112, 115, 58, 47, 47, 97, 109, 112, 112, 114, 111, 106, 101, 99, 116, 46, 110, 101, 116, 47, 102, 111, 111, 47, 101, 106, 57, 112, 90, 68, 49, 114, 78, 119, 61, 61, 47, 118, 34, 62>>       \* <a href="https://ampproject.net/foo/ej9pZD1rNw==/v">
H_AMP_NOFOO == <<60, 97, 32, 104, 114, 101, 102, 61, 34, 104, 116, 116, 112, 115, 58, 47, 47, 120, 45, 121, 46, 99, 100, 110, 46, 97, 109, 112, 112, 114, 111, 106, 101, 99, 116, 46, 111, 114, 103, 47, 99, 47, 115, 47, 98, 97, 114, 34, 62>>          \* <a href="https://x-y.cdn.ampproject.org/c/s/bar">
\* the segment after foo/ is no base64 text
H_AMP_BADB64 == <<60, 97, 32, 104, 114, 101, 102, 61, 34, 104, 116, 116, 112, 115, 58, 47, 47, 120, 45, 121, 46, 99, 100, 110, 46, 97, 109, 112, 112, 114, 111, 106, 101, 99, 116, 46, 111, 114, 103, 47, 102, 111, 111, 47, 101, 106, 57, 112, 90, 34, 62>>       \* <a href="https://x-y.cdn.ampproject.org/foo/ej9pZ">
\* the segment after foo/ is base64 of "z?x=1"
H_AMP_NOID == <<60, 97, 32, 104, 114, 101, 102, 61, 34, 104, 116, 116, 112, 115, 58, 47, 47, 120, 45, 121, 46, 99, 100, 110, 46, 97, 109, 112, 112, 114, 111, 106, 101, 99, 116, 46, 111, 114, 103, 47, 102, 111, 111, 47, 101, 106, 57, 52, 80, 84, 69, 61, 34, 62>>      \* <a href="https://x-y.cdn.ampproject.org/foo/ej94PTE=">

\* re2 payload: base64 of "z?r=aHR0cHM6Ly9oLm9uZS9h", whose r is base64 of "https://h.one/a"
F_RE2 == <<104, 116, 116, 112, 115, 58, 47, 47, 104, 46, 111, 110, 101, 47, 114, 101, 50, 47, 101, 106, 57, 121, 80, 87, 70, 73, 85, 106, 66, 106, 83, 69, 48, 50, 84, 72, 107, 53, 98, 48, 120, 116, 79, 88, 86, 97, 85, 122, 108, 111, 47, 120>>   \* "https://h.one/re2/ej9yPWFIUjBjSE02THk5b0xtOXVaUzlo/x"
\* re2 payload: base64 of "z?x=1" (no r parameter)
F_RE2_NOR == <<104, 116, 116, 112, 115, 58, 47, 47, 104, 46, 111, 110, 101, 47, 114, 101, 50, 47, 101, 106, 57, 52, 80, 84, 69, 61, 47, 120, 63, 114, 61, 97, 72, 82, 48, 99, 72, 77, 54, 76, 121, 57, 111, 76, 109, 57, 117, 90, 83, 57, 104>>   \* "https://h.one/re2/ej94PTE=/x?r=aHR0cHM6Ly9oLm9uZS9h"
\* re2 payload that is no base64 text
F_RE2_BAD == <<104, 116, 116, 112, 115, 58, 47, 47, 104, 46, 111, 110, 101, 47, 114, 101, 50, 47, 101, 106, 57, 121, 80, 47, 120>>                            \* "https://h.one/re2/ej9yP/x"
\* no re2 segment, r is base64 of "https://h.one/a"
F_R == <<104, 116, 116, 112, 115, 58, 47, 47, 104, 46, 111, 110, 101, 47, 103, 111, 63, 114, 61, 97, 72, 82, 48, 99, 72, 77, 54, 76, 121, 57, 111, 76, 109, 57, 117, 90, 83, 57, 104>>                    \* "https://h.one/go?r=aHR0cHM6Ly9oLm9uZS9h"
\* no re2 segment and no r parameter
F_PLAIN == <<104, 116, 116, 112, 115, 58, 47, 47, 104, 46, 111, 110, 101, 47, 102, 63, 115, 116, 97, 114, 116, 61, 84, 79, 75, 49>>                             \* "https://h.one/f?start=TOK1"
\* captcha page whose continue parameter is the percent-encoded F_RE2
F_SORRY == <<104, 116, 116, 112, 115, 58, 47, 47, 119, 119, 119, 46, 103, 111, 111, 103, 108, 101, 46, 99, 111, 109, 47, 115, 111, 114, 114, 121, 47, 105, 110, 100, 101, 120, 63, 99, 111, 110, 116, 105, 110, 117, 101, 61, 104, 116, 116, 112, 115, 37, 51, 65, 37, 50, 70, 37, 50, 70, 104, 46, 111, 110, 101, 37, 50, 70, 114, 101, 50, 37, 50, 70, 101, 106, 57, 121, 80, 87, 70, 73, 85, 106, 66, 106, 83, 69, 48, 50, 84, 72, 107, 53, 98, 48, 120, 116, 79, 88, 86, 97, 85, 122, 108, 111, 37, 50, 70, 120, 38, 113, 61, 49>>   \* "https://www.google.com/sorry/index?continue=https%3A%2F%2Fh.one%2Fre2%2Fej9yPWFIUjBjSE02THk5b0xtOXVaUzlo%2Fx&q=1"
\* captcha page without a continue parameter
F_SORRY_BARE == <<104, 116, 116, 112, 115, 58, 47, 47, 119, 119, 119, 46, 103, 111, 111, 103, 108, 101, 46, 99, 111, 109, 47, 115, 111, 114, 114, 121, 47, 105, 110, 100, 101, 120, 63, 113, 61, 49>>            \* "https://www.google.com/sorry/index?q=1"
\* no re2 segment, r is base64 of "https://h.one/a?k=~~~" and ends with a plus sign
F_R_PLUS == <<104, 116, 116, 112, 115, 58, 47, 47, 104, 46, 111, 110, 101, 47, 103, 111, 63, 114, 61, 97, 72, 82, 48, 99, 72, 77, 54, 76, 121, 57, 111, 76, 109, 57, 117, 90, 83, 57, 104, 80, 50, 115, 57, 102, 110, 53, 43>>   \* "https://h.one/go?r=aHR0cHM6Ly9oLm9uZS9hP2s9fn5+"
\* the same r with the plus sign percent-encoded
F_R_PCT == <<104, 116, 116, 112, 115, 58, 47, 47, 104, 46, 111, 110, 101, 47, 103, 111, 63, 114, 61, 97, 72, 82, 48, 99, 72, 77, 54, 76, 121, 57, 111, 76, 109, 57, 117, 90, 83, 57, 104, 80, 50, 115, 57, 102, 110, 53, 37, 50, 66>>   \* "https://h.one/go?r=aHR0cHM6Ly9oLm9uZS9hP2s9fn5%2B"
\* re2 payload: base64 of "zz~?r=aHR0cHM6Ly9oLm9uZS9h", which holds a plus sign
F_RE2_PLUS == <<104, 116, 116, 112, 115, 58, 47, 47, 104, 46, 111, 110, 101, 47, 114, 101, 50, 47, 101, 110, 112, 43, 80, 51, 73, 57, 89, 85, 104, 83, 77, 71, 78, 73, 84, 84, 90, 77, 101, 84, 108, 118, 84, 71, 48, 53, 100, 86, 112, 84, 79, 87, 103, 61, 47, 120>>   \* "https://h.one/re2/enp+P3I9YUhSMGNITTZMeTlvTG05dVpTOWg=/x"
\* captcha page whose continue parameter is the percent-encoded F_R
F_SORRY_R == <<104, 116, 116, 112, 115, 58, 47, 47, 119, 119, 119, 46, 103, 111, 111, 103, 108, 101, 46, 99, 111, 109, 47, 115, 111, 114, 114, 121, 47, 105, 110, 100, 101, 120, 63, 113, 61, 49, 38, 99, 111, 110, 116, 105, 110, 117, 101, 61, 104, 116, 116, 112, 115, 37, 51, 65, 37, 50, 70, 37, 50, 70, 104, 46, 111, 110, 101, 37, 50, 70, 103, 111, 37, 51, 70, 114, 37, 51, 68, 97, 72, 82, 48, 99, 72, 77, 54, 76, 121, 57, 111, 76, 109, 57, 117, 90, 83, 57, 104>>   \* "https://www.google.com/sorry/index?q=1&continue=https%3A%2F%2Fh.one%2Fgo%3Fr%3DaHR0cHM6Ly9oLm9uZS9h"
\* captcha page whose continue parameter is the percent-encoded F_PLAIN
F_SORRY_PLAIN == <<104, 116, 116, 112, 115, 58, 47, 47, 119, 119, 119, 46, 103, 111, 111, 103, 108, 101, 46, 99, 111, 109, 47, 115, 111, 114, 114, 121, 47, 105, 110, 100, 101, 120, 63, 99, 111, 110, 116, 105, 110, 117, 101, 61, 104, 116, 116, 112, 115, 37, 51, 65, 37, 50, 70, 37, 50, 70, 104, 46, 111, 110, 101, 37, 50, 70, 102, 37, 51, 70, 115, 116, 97, 114, 116, 37, 51, 68, 84, 79, 75, 49>>   \* "https://www.google.com/sorry/index?continue=https%3A%2F%2Fh.one%2Ff%3Fstart%3DTOK1"
\* captcha page whose continue parameter is the percent-encoded F_RE2_NOR
F_SORRY_NOR == <<104, 116, 116, 112, 115, 58, 47, 47, 119, 119, 119, 46, 103, 111, 111, 103, 108, 101, 46, 99, 111, 109, 47, 115, 111, 114, 114, 121, 47, 105, 110, 100, 101, 120, 63, 99, 111, 110, 116, 105, 110, 117, 101, 61, 104, 116, 116, 112, 115, 37, 51, 65, 37, 50, 70, 37, 50, 70, 104, 46, 111, 110, 101, 37, 50, 70, 114, 101, 50, 37, 50, 70, 101, 106, 57, 52, 80, 84, 69, 37, 51, 68, 37, 50, 70, 120, 37, 51, 70, 114, 37, 51, 68, 97, 72, 82, 48, 99, 72, 77, 54, 76, 121, 57, 111, 76, 109, 57, 117, 90, 83, 57, 104>>   \* "https://www.google.com/sorry/index?continue=https%3A%2F%2Fh.one%2Fre2%2Fej94PTE%3D%2Fx%3Fr%3DaHR0cHM6Ly9oLm9uZS9h"
\* captcha page whose continue parameter is the percent-encoded F_R_PLUS
F_SORRY_PCT == <<104, 116, 116, 112, 115, 58, 47, 47, 119, 119, 119, 46, 103, 111, 111, 103, 108, 101, 46, 99, 111, 109, 47, 115, 111, 114, 114, 121, 47, 105, 110, 100, 101, 120, 63, 99, 111, 110, 116, 105, 110, 117, 101, 61, 104, 116, 116, 112, 115, 37, 51, 65, 37, 50, 70, 37, 50, 70, 104, 46, 111, 110, 101, 37, 50, 70, 103, 111, 37, 51, 70, 114, 37, 51, 68, 97, 72, 82, 48, 99, 72, 77, 54, 76, 121, 57, 111, 76, 109, 57, 117, 90, 83, 57, 104, 80, 50, 115, 57, 102, 110, 53, 37, 50, 66>>   \* "https://www.google.com/sorry/index?continue=https%3A%2F%2Fh.one%2Fgo%3Fr%3DaHR0cHM6Ly9oLm9uZS9hP2s9fn5%2B"

ProtocolInputs == {L_A, L_B, L_API}

\* The pages the network may serve and the URLs a redirect-following request
\* may land on.
ProtocolPages == {H_ANCHOR, H_ANCHOR_SELF, H_ANCHOR_SQ, H_NONE, H_AMP, H_AMP_LOOSE,
                  H_AMP_NOFOO, H_AMP_BADB64, H_AMP_NOID}
ProtocolLanded ==
    {F_RE2, F_RE2_NOR, F_RE2_BAD, F_R, F_PLAIN, F_SORRY, F_SORRY_BARE, F_R_PLUS,
     F_R_PCT, F_RE2_PLUS, F_SORRY_R, F_SORRY_PLAIN, F_SORRY_NOR, F_SORRY_PCT}

\* The protocol before it is called.
ProtocolIdle ==
    /\ source_link = <<>>
    /\ vcloud_url = <<>>
    /\ html_response = <<>>
    /\ hubcloud_url = <<>>
    /\ final_url = <<>>
    /\ p_pc = "idle"
    /\ p_error = "none"
    /\ p_result = <<>>
    /\ requests = <<>>
    /\ p_client = 0
    /\ client_of = <<>>

ProtocolInit ==
    /\ source_link \in ProtocolInputs
    /\ vcloud_url = source_link
    /\ html_response = <<>>
    /\ hubcloud_url = <<>>
    /\ final_url = <<>>
    /\ p_pc = "start"
    /\ p_error = "none"
    /\ p_result = <<>>
    /\ requests = <<>>
    /\ p_client = 0
    /\ client_of = <<>>

\* Line 58: with httpx.Client() as client, for the API-style link.
ApiClient == NewClient

\* Line 74: with httpx.Client() as client, for the two fetches.
MainClient == NewClient

\* The request failed (client.get raised): the call raises.
ProtoRequestFails ==
    /\ p_pc' = "raised"
    /\ p_error' = "request"
    /\ UNCHANGED <<source_link, vcloud_url, html_response, hubcloud_url, final_url,
                   p_result>>

\* Stage 1 (lines 55-71): an API-style link is fetched and replaced by the
\* vcloud.zip link its page points to.
ProtoApiFetch ==
    /\ UNCHANGED nonProtocolVars
    /\ p_pc = "start"
    /\ IsApiStyle(vcloud_url)
    /\ p_client' = ApiClient
    /\ client_of' = IF CanRequest(vcloud_url)
                    THEN Append(client_of, ApiClient) ELSE client_of
    /\ IF ~CanRequest(vcloud_url)
       THEN ProtoRequestFails /\ UNCHANGED requests
       ELSE /\ requests' = Append(requests, vcloud_url)
            /\ \/ ProtoRequestFails
               \/ \E html \in ProtocolPages :
                     \E s \in {ApiStage(vcloud_url, html)} :
                         /\ html_response' = html
                         /\ IF s.ok
                            THEN /\ vcloud_url' = s.val
                                 /\ p_pc' = "fetch"
                                 /\ UNCHANGED p_error
                            ELSE /\ p_pc' = "raised"
                                 /\ p_error' = s.err
                                 /\ UNCHANGED vcloud_url
                         /\ UNCHANGED <<source_link, hubcloud_url, final_url, p_result>>

\* Stages 2 and 3 (lines 74-113): the initial fetch of the effective link.
ProtoInitialFetch ==
    /\ UNCHANGED nonProtocolVars
    /\ \/ p_pc = "fetch"
       \/ p_pc = "start" /\ ~IsApiStyle(vcloud_url)
    /\ p_client' = MainClient
    /\ client_of' = IF CanRequest(vcloud_url)
                    THEN Append(client_of, MainClient) ELSE client_of
    /\ IF ~CanRequest(vcloud_url)
       THEN ProtoRequestFails /\ UNCHANGED requests
       ELSE /\ requests' = Append(requests, vcloud_url)
            /\ \/ ProtoRequestFails
               \/ \E html \in ProtocolPages :
                     \E s \in {AmpStage(html)} :
                         /\ html_response' = html
                         /\ IF s.ok
                            THEN /\ hubcloud_url' = s.val
                                 /\ p_pc' = "secondary"
                                 /\ UNCHANGED p_error
                            ELSE /\ p_pc' = "raised"
                                 /\ p_error' = s.err
                                 /\ UNCHANGED hubcloud_url
                         /\ UNCHANGED <<source_link, vcloud_url, final_url, p_result>>

\* Stages 4 to 6 (lines 115-224): the secondary fetch with redirect
\* following and the decoding of the URL it landed on.
ProtoSecondaryFetch ==
    /\ UNCHANGED <<nonProtocolVars, p_client>>
    /\ p_pc = "secondary"
    /\ client_of' = IF CanRequest(hubcloud_url)
                    THEN Append(client_of, p_client) ELSE client_of
    /\ IF ~CanRequest(hubcloud_url)
       THEN ProtoRequestFails /\ UNCHANGED requests
       ELSE /\ requests' = Append(requests, hubcloud_url)
            /\ \/ ProtoRequestFails
               \/ \E url \in ProtocolLanded :
                     \E s \in {LandedStage(url)} :
                         /\ final_url' = url
                         /\ IF s.ok
                            THEN /\ p_result' = s.val
                                 /\ p_pc' = "returned"
                                 /\ UNCHANGED p_error
                            ELSE /\ p_pc' = "raised"
                                 /\ p_error' = s.err
                                 /\ UNCHANGED p_result
                         /\ UNCHANGED <<source_link, vcloud_url, html_response,
                                        hubcloud_url>>

\* ------------------------------------------------------------------------
\* process_vcloud_link: the protocol, then the follower, for one link
\* ------------------------------------------------------------------------

\* The network one call meets: the answers to the requests of the protocol
\* and the answers to the requests of the follower, in order.
Script(proto, chain) == [proto |-> proto, chain |-> chain]

\* process_vcloud_link returning what it has (the link, or the decoded URL)
\* in place of None when a phase raises.
process_vcloud_link_placeholder(url, script) ==
    With(get_hubcloud_url_from_vcloud(url, script.proto), LAMBDA decoded_r_url :
    With(follow_redirect_chain_and_extract_start(decoded_r_url.val, script.chain),
         LAMBDA start_param :
        IF ~decoded_r_url.ok THEN [ok |-> TRUE, val |-> url, stage |-> "none"]
        ELSE IF ~start_param.ok
        THEN [ok |-> TRUE, val |-> decoded_r_url.val, stage |-> "none"]
        ELSE [ok |-> TRUE, val |-> start_param.val, stage |-> "none"]))

\* process_vcloud_link(vcloud_url): the start parameter, or None (ok FALSE)
\* when either phase raised; stage tells which phase it was.
process_vcloud_link(url, script) ==
    With(get_hubcloud_url_from_vcloud(url, script.proto), LAMBDA decoded_r_url :
    With(follow_redirect_chain_and_extract_start(decoded_r_url.val, script.chain),
         LAMBDA start_param :
        IF ~decoded_r_url.ok THEN [ok |-> FALSE, val |-> <<>>, stage |-> "protocol"]
        ELSE IF ~start_param.ok THEN [ok |-> FALSE, val |-> <<>>, stage |-> "follower"]
        ELSE [ok |-> TRUE, val |-> start_param.val, stage |-> "none"]))

\* The networks a worker may meet.
Scripts ==
    { \* resolves to TOK1: re2 payload, one redirect, start in the final URL
      Script(<<Page(H_AMP), Landed(F_RE2)>>,
             <<Net(FALSE, Some(U_TOK1), <<>>), Net(FALSE, None, <<>>)>>),
      \* resolves to ABC123: captcha page, start in the body
      Script(<<Page(H_AMP_LOOSE), Landed(F_SORRY)>>,
             <<Net(FALSE, None, T_BODY_START)>>),
      \* an API-style link resolves to ABC123
      Script(<<Page(H_ANCHOR), Page(H_AMP), Landed(F_R)>>,
             <<Net(FALSE, None, T_BODY_START)>>),
      \* the first request fails
      Script(<<Failure>>, <<>>),
      \* the page holds no AMP URL
      Script(<<Page(H_NONE)>>, <<>>),
      \* the re2 payload cannot be decoded
      Script(<<Page(H_AMP), Landed(F_RE2_BAD)>>, <<>>),
      \* a request of the follower fails
      Script(<<Page(H_AMP), Landed(F_RE2)>>, <<Net(TRUE, None, <<>>)>>),
      \* the terminal response holds no start parameter
      Script(<<Page(H_AMP), Landed(F_RE2)>>, <<Net(FALSE, None, <<>>)>>) }

\* ------------------------------------------------------------------------
\* Documents and the resolution record
\* ------------------------------------------------------------------------

S_url == <<117, 114, 108>>                 \* "url"
S_vcloud_zip == <<118, 99, 108, 111, 117, 100, 46, 122, 105, 112>>   \* "vcloud.zip"
S_title == <<116, 105, 116, 108, 101>>             \* "title"
S_items == <<105, 116, 101, 109, 115>>             \* "items"
S_OLD == <<79, 76, 68>>                 \* "OLD"
L_OTHER == <<104, 116, 116, 112, 115, 58, 47, 47, 111, 116, 104, 101, 114, 46, 105, 111, 47, 120>>   \* "https://other.io/x"
L_GONE == <<104, 116, 116, 112, 115, 58, 47, 47, 118, 99, 108, 111, 117, 100, 46, 122, 105, 112, 47, 103, 111, 110, 101>>   \* "https://vcloud.zip/gone"

\* A JSON value: a string, another scalar, a mapping (a sequence of
\* key/value items) or a sequence (items with an empty key).
StrV(s) == [t |-> "str", s |-> s, items |-> <<>>]
NumV == [t |-> "num", s |-> <<>>, items |-> <<>>]
Item(k, v) == [k |-> k, v |-> v]
DictV(items) == [t |-> "dict", s |-> <<>>, items |-> items]
ListV(values) == [t |-> "list", s |-> <<>>,
                  items |-> [i \in 1..Len(values) |-> Item(<<>>, values[i])]]

RECURSIVE find_vcloud_links(_)
RECURSIVE LinksOfItems(_, _)
\* The links found in the items of a mapping (inDict) or of a sequence, in
\* traversal order.
LinksOfItems(items, inDict) ==
    IF items = <<>> THEN <<>>
    ELSE LET it == Head(items)
             here == IF inDict /\ it.k = S_url /\ it.v.t = "str"
                        /\ Contains(it.v.s, S_vcloud_zip)
                     THEN <<it.v.s>>
                     ELSE IF inDict /\ it.v.t \notin {"dict", "list"} THEN <<>>
                     ELSE find_vcloud_links(it.v)
         IN  here \o LinksOfItems(Tail(items), inDict)

\* The locator without its branch for sequences.
find_vcloud_links_shallow(d) ==
    IF d.t = "dict" THEN LinksOfItems(d.items, TRUE) ELSE <<>>

\* find_vcloud_links(data): the link of every "url" field whose value is a
\* string containing "vcloud.zip", in traversal order, once per occurrence.
find_vcloud_links(d) ==
    IF d.t = "dict" THEN LinksOfItems(d.items, TRUE)
    ELSE IF d.t = "list" THEN LinksOfItems(d.items, FALSE)
    ELSE <<>>

RECURSIVE replace_url_recursive(_, _, _)
\* replace_url_recursive(obj) for one (url, start_param) of the record.
replace_url_recursive(obj, url, start_param) ==
    IF obj.t = "dict"
    THEN [obj EXCEPT !.items = [i \in 1..Len(obj.items) |->
            LET it == obj.items[i]
            IN  IF it.k = S_url /\ it.v.t = "str" /\ it.v.s = url
                THEN Item(it.k, StrV(start_param))
                ELSE IF it.v.t \in {"dict", "list"}
                THEN Item(it.k, replace_url_recursive(it.v, url, start_param))
                ELSE it]]
    ELSE IF obj.t = "list"
    THEN [obj EXCEPT !.items = [i \in 1..Len(obj.items) |->
            Item(obj.items[i].k,
                 replace_url_recursive(obj.items[i].v, url, start_param))]]
    ELSE obj

RECURSIVE SubstituteAll(_, _)
\* The loop over progress["processed"].items() that rewrites the document.
SubstituteAll(d, record) ==
    IF record = <<>> THEN d
    ELSE SubstituteAll(replace_url_recursive(d, Head(record)[1], Head(record)[2]),
                       Tail(record))

\* A Python dict with string keys: its (key, value) pairs in insertion order.
Keys(d) == {d[i][1] : i \in 1..Len(d)}
Entries(d) == {d[i] : i \in 1..Len(d)}
DictGet(d, k) == d[CHOOSE i \in 1..Len(d) : d[i][1] = k][2]

\* The outcome of an in-place update: the object as the call left it, and
\* whether the call returned (ok) or raised.
Updated(ok, doc) == [ok |-> ok, doc |-> doc]

RECURSIVE update_recursive(_, _, _)
RECURSIVE UpdateItems(_, _, _, _)

\* One iteration of a loop of update_recursive: over the items of a mapping
\* (lines 359-364) or over the items of a sequence (lines 366-367).
UpdateItem(it, inDict, rootIsList, map) ==
    IF inDict /\ it.k = S_url /\ it.v.t = "str"
       /\ Contains(it.v.s, S_vcloud_zip) /\ it.v.s \in Keys(map)
    THEN Updated(TRUE, Item(it.k, StrV(DictGet(map, it.v.s))))
    ELSE IF inDict /\ it.v.t \notin {"dict", "list"}
    THEN Updated(TRUE, it)
    ELSE With(update_recursive(it.v, rootIsList, map), LAMBDA r :
             Updated(r.ok, Item(it.k, r.doc)))

\* The loop over the items, left to right; an exception ends it and leaves
\* the items not yet visited as they were.
UpdateItems(items, inDict, rootIsList, map) ==
    IF items = <<>> THEN Updated(TRUE, <<>>)
    ELSE With(UpdateItem(Head(items), inDict, rootIsList, map), LAMBDA h :
             IF ~h.ok THEN Updated(FALSE, <<h.doc>> \o Tail(items))
             ELSE With(UpdateItems(Tail(items), inDict, rootIsList, map), LAMBDA t :
                      Updated(t.ok, <<h.doc>> \o t.doc)))

\* update_recursive(obj), lines 357-367. The second branch tests the root
\* (isinstance(data, list)), not obj: under a root that is a sequence every
\* obj that is no mapping is iterated. Iterating a number raises TypeError;
\* iterating a non-empty string yields one-character strings, each iterated
\* again without end, until RecursionError. Under any other root an obj that
\* is no mapping is left alone.
update_recursive(obj, rootIsList, map) ==
    IF obj.t = "dict"
    THEN With(UpdateItems(obj.items, TRUE, rootIsList, map), LAMBDA r :
             Updated(r.ok, [obj EXCEPT !.items = r.doc]))
    ELSE IF ~rootIsList THEN Updated(TRUE, obj)
    ELSE IF obj.t = "list"
    THEN With(UpdateItems(obj.items, FALSE, rootIsList, map), LAMBDA r :
             Updated(r.ok, [obj EXCEPT !.items = r.doc]))
    ELSE IF obj.t = "str" THEN Updated(obj.s = <<>>, obj)
    ELSE Updated(FALSE, obj)

\* update_json_with_results(data, results_map)
update_json_with_results(d, map) == update_recursive(d, d.t = "list", map)

\* A record that takes a second pair for a key it holds.
DictSetAppend(d, k, v) == Append(d, <<k, v>>)

\* d[k] = v
DictSet(d, k, v) ==
    IF k \in Keys(d)
    THEN [i \in 1..Len(d) |-> IF d[i][1] = k THEN <<k, v>> ELSE d[i]]
    ELSE Append(d, <<k, v>>)

\* The documents the engine is run on.
Documents ==
    { \* the same link twice, one of them inside a sequence
      DictV(<<Item(S_title, StrV(S_TOK1)),
              Item(S_url, StrV(L_A)),
              Item(S_items, ListV(<<DictV(<<Item(S_url, StrV(L_B))>>),
                                    DictV(<<Item(S_url, StrV(L_A))>>),
                                    NumV>>))>>),
      \* a sequence at the root, an API-style link, a link that is no vcloud link
      ListV(<<DictV(<<Item(S_url, StrV(L_API))>>),
              DictV(<<Item(S_url, StrV(L_OTHER))>>),
              DictV(<<Item(S_title, DictV(<<Item(S_url, StrV(L_B))>>))>>)>>),
      \* a "url" field holding a mapping
      DictV(<<Item(S_url, DictV(<<Item(S_url, StrV(L_A))>>)),
              Item(S_title, NumV)>>) }

\* ------------------------------------------------------------------------
\* The checkpoint file
\* ------------------------------------------------------------------------

\* The file on disk: absent, empty (0 bytes), partial (some but not all of
\* the bytes of a JSON text) or complete (the JSON text of a record).
FileAbsent == [state |-> "absent", processed |-> <<>>]
FileEmpty == [state |-> "empty", processed |-> <<>>]
FilePartial == [state |-> "partial", processed |-> <<>>]
FileComplete(record) == [state |-> "complete", processed |-> record]

\* load_progress(progress_file): the record read, or None where json.load
\* raises.
load_progress(f) ==
    IF f.state = "absent" THEN Some(<<>>)
    ELSE IF f.state = "empty" THEN Some(<<>>)
    ELSE IF f.state = "complete" THEN Some(f.processed)
    ELSE None

\* The checkpoint files a first run may find. In the last one the token of
\* a link is the text of another link (a start parameter is whatever text
\* the last response of the chain holds).
InitialFiles ==
    { FileAbsent,
      FileComplete(<<>>),
      FileComplete(<<<<L_A, S_OLD>>>>),
      FileComplete(<<<<L_GONE, S_OLD>>, <<L_B, S_OLD>>>>),
      FileComplete(<<<<L_A, L_B>>, <<L_B, S_OLD>>>>) }

\* ------------------------------------------------------------------------
\* process_json_file: the batch engine
\* ------------------------------------------------------------------------

\* The width of the worker pool (main passes 50).
num_workers == 2

\* A future of the executor: the link it was submitted for, the state of its
\* resolution, what process_vcloud_link returned, and whether the main loop
\* has taken it from as_completed.
Task(url) == [url |-> url, state |-> "Pending", val |-> <<>>, collected |-> FALSE]

\* The output file: not written, or holding a document.
NoOutput == [written |-> FALSE, doc |-> NumV]
Written(doc) == [written |-> TRUE, doc |-> doc]

\* Every link found, whatever the record holds.
unprocessed_urls_all(links, record) == links

\* unprocessed_urls (line 420): the links found that have no entry in the
\* record loaded, in order, once per occurrence.
unprocessed_urls(links, record) ==
    SelectSeq(links, LAMBDA url : url \notin Keys(record))

\* What process_vcloud_link returns for every link of the documents, on
\* every network.
EngineLinks ==
    UNION {{find_vcloud_links(d)[i] : i \in 1..Len(find_vcloud_links(d))} :
              d \in Documents}
OutcomeTable ==
    {<<url, process_vcloud_link(url, script)>> : url \in EngineLinks,
                                                  script \in Scripts}
Outcomes(url) == {o[2] : o \in {p \in OutcomeTable : p[1] = url}}

\* The calls in which a stage fails: the protocol raises, or the follower,
\* called on the URL the protocol decoded, raises.
FailingCalls ==
    {c \in EngineLinks \X Scripts :
        \/ ~get_hubcloud_url_from_vcloud(c[1], c[2].proto).ok
        \/ ~follow_redirect_chain_and_extract_start(
                get_hubcloud_url_from_vcloud(c[1], c[2].proto).val, c[2].chain).ok}

\* What process_vcloud_link returns from the calls in which a stage fails.
FailedOutcomes == {process_vcloud_link(c[1], c[2]) : c \in FailingCalls}

TaskIds == 1..Len(tasks)
\* Only the calls that returned a token count as done.
FinishedResolvedOnly(i) == tasks[i].state = "Resolved"

\* future.done(): the call returned, with a token or with None.
Finished(i) == tasks[i].state \in {"Resolved", "Failed"}
Running == {i \in TaskIds : tasks[i].state = "Resolving"}

\* A pool that starts a thread for every task submitted.
PoolAlwaysFree == TRUE

\* ThreadPoolExecutor(max_workers=num_workers): a task leaves the queue when
\* fewer than num_workers threads are at work.
PoolHasFreeWorker == Cardinality(Running) < num_workers

\* The positions of the main thread inside the executor block.
InRun == {"collect", "save", "write", "flush", "report"}

\* The links whose resolution failed in this run and that have no entry.
FailedUnrecorded ==
    {tasks[i].url : i \in {j \in TaskIds : tasks[j].state = "Failed"}}
        \ Keys(progress)

\* No run of the engine.
EngineIdle ==
    /\ data = NumV
    /\ progress = <<>>
    /\ tasks = <<>>
    /\ completed_tasks = 0
    /\ current = 0
    /\ pc = "idle"
    /\ lock_held = FALSE
    /\ file = FileAbsent
    /\ output = NoOutput
    /\ loaded = <<>>
    /\ persisted = <<>>
    /\ saves = 0
    /\ last_failed = {}

\* The engine about to be invoked on a document, with the checkpoint file an
\* earlier invocation left.
EngineInit ==
    /\ data \in Documents
    /\ file \in InitialFiles
    /\ progress = <<>>
    /\ tasks = <<>>
    /\ completed_tasks = 0
    /\ current = 0
    /\ pc = "start"
    /\ lock_held = FALSE
    /\ output = NoOutput
    /\ loaded = <<>>
    /\ persisted = file.processed
    /\ saves = 0
    /\ last_failed = {}

\* Lines 404-434: the links are located, the checkpoint is loaded and one
\* task is submitted for every unprocessed link. json.load raising on a
\* file that holds no complete JSON text ends the invocation.
StartRun ==
    /\ UNCHANGED <<nonEngineVars, data, lock_held, file, output, persisted, saves,
                   last_failed, completed_tasks, current>>
    /\ pc = "start"
    /\ LET p == load_progress(file)
           urls == unprocessed_urls(find_vcloud_links(data), p.val)
       IN  IF p.ok
           THEN /\ progress' = p.val
                /\ loaded' = p.val
                /\ tasks' = [i \in 1..Len(urls) |-> Task(urls[i])]
                /\ pc' = "collect"
           ELSE /\ pc' = "aborted"
                /\ UNCHANGED <<progress, loaded, tasks>>

\* A free worker of the pool takes the oldest pending task.
WorkerStart(i) ==
    /\ UNCHANGED <<nonEngineVars, data, progress, completed_tasks, current, pc,
                   lock_held, file, output, loaded, persisted, saves, last_failed>>
    /\ pc \in InRun
    /\ tasks[i].state = "Pending"
    /\ \A j \in 1..(i - 1) : tasks[j].state # "Pending"
    /\ PoolHasFreeWorker
    /\ tasks' = [tasks EXCEPT ![i].state = "Resolving"]

\* The worker's call of process_vcloud_link returns: a token, or None.
WorkerFinish(i) ==
    /\ UNCHANGED <<nonEngineVars, data, progress, completed_tasks, current, pc,
                   lock_held, file, output, loaded, persisted, saves, last_failed>>
    /\ pc \in InRun
    /\ tasks[i].state = "Resolving"
    /\ \E r \in Outcomes(tasks[i].url) :
          tasks' = [tasks EXCEPT
                       ![i].state = IF r.ok THEN "Resolved" ELSE "Failed",
                       ![i].val = r.val]

\* The checkpoint is saved for the links that were resolved only.
AfterResultSaveOnSuccess(i) ==
    IF tasks[i].state = "Resolved" THEN "save" ELSE "report"

\* Line 452 follows the try statement of lines 439-449 whatever the result
\* was: the main loop goes on to save_progress.
AfterResult(i) == "save"

\* Lines 437-449: as_completed hands a finished future to the main loop,
\* which stores its result in the record unless it is None.
Collect(i) ==
    /\ UNCHANGED <<nonEngineVars, data, completed_tasks, lock_held, file, output,
                   loaded, persisted, saves, last_failed>>
    /\ pc = "collect"
    /\ Finished(i)
    /\ ~tasks[i].collected
    /\ current' = i
    /\ tasks' = [tasks EXCEPT ![i].collected = TRUE]
    /\ progress' = IF tasks[i].state = "Resolved"
                   THEN DictSet(progress, tasks[i].url, tasks[i].val)
                   ELSE progress
    /\ pc' = AfterResult(i)

\* The lock stays held when save_progress is left.
LockOnExitKept == TRUE

\* Line 389: the with statement releases progress_lock when its block is
\* left, by the end of the block or by an exception.
LockOnExit == FALSE

\* save_progress, lines 389-390: the lock is taken and open(.., 'w')
\* truncates the file.
SaveOpen ==
    /\ UNCHANGED <<nonEngineVars, data, progress, tasks, completed_tasks, current,
                   output, loaded, persisted, saves, last_failed>>
    /\ pc = "save"
    /\ ~lock_held
    /\ lock_held' = TRUE
    /\ file' = FileEmpty
    /\ pc' = "write"

\* save_progress, lines 389-390: the lock is taken and open raises (the file
\* cannot be written); the exception leaves the with block and the loop and
\* ends the invocation.
SaveFault ==
    /\ UNCHANGED <<nonEngineVars, data, progress, tasks, completed_tasks, current,
                   file, output, loaded, persisted, saves, last_failed>>
    /\ pc = "save"
    /\ ~lock_held
    /\ lock_held' = LockOnExit
    /\ pc' = "aborted"

\* save_progress, line 391: json.dump has written part of the text and the
\* buffer of the file has been flushed.
SaveFlush ==
    /\ UNCHANGED <<nonEngineVars, data, progress, tasks, completed_tasks, current,
                   lock_held, output, loaded, persisted, saves, last_failed>>
    /\ pc = "write"
    /\ file' = FilePartial
    /\ pc' = "flush"

\* save_progress, line 391 to the end of the with blocks: the rest of the
\* text is written, the file is closed and the lock released.
SaveClose ==
    /\ UNCHANGED <<nonEngineVars, data, progress, tasks, completed_tasks, current,
                   output, loaded, last_failed>>
    /\ pc \in {"write", "flush"}
    /\ file' = FileComplete(progress)
    /\ persisted' = progress
    /\ saves' = saves + 1
    /\ lock_held' = LockOnExit
    /\ pc' = "report"

\* Lines 454-467: the counter and the progress line.
Report ==
    /\ UNCHANGED <<nonEngineVars, data, progress, tasks, lock_held, file, output,
                   loaded, persisted, saves, last_failed>>
    /\ pc = "report"
    /\ completed_tasks' = completed_tasks + 1
    /\ current' = 0
    /\ pc' = "collect"

\* Lines 469-493: every future has been handled; the record is substituted
\* into the document and the output file is written.
Finish ==
    /\ UNCHANGED <<nonEngineVars, data, progress, tasks, completed_tasks, current,
                   lock_held, file, loaded, persisted, saves, last_failed>>
    /\ pc = "collect"
    /\ \A i \in TaskIds : tasks[i].collected
    /\ output' = Written(SubstituteAll(data, progress))
    /\ pc' = "done"

\* The process is killed inside the executor block: what it held in memory
\* is gone, the files stay as they are.
Interrupt ==
    /\ UNCHANGED <<nonEngineVars, data, file, output, persisted>>
    /\ pc \in InRun
    /\ last_failed' = FailedUnrecorded
    /\ progress' = <<>>
    /\ loaded' = <<>>
    /\ tasks' = <<>>
    /\ completed_tasks' = 0
    /\ saves' = 0
    /\ current' = 0
    /\ lock_held' = FALSE
    /\ pc' = "killed"

\* The next invocation on the same document and files.
Rerun ==
    /\ UNCHANGED <<nonEngineVars, data, file, output, persisted>>
    /\ pc \in {"done", "aborted", "killed"}
    /\ last_failed' = IF pc = "killed" THEN last_failed ELSE FailedUnrecorded
    /\ progress' = <<>>
    /\ loaded' = <<>>
    /\ tasks' = <<>>
    /\ completed_tasks' = 0
    /\ saves' = 0
    /\ current' = 0
    /\ lock_held' = FALSE
    /\ pc' = "start"

\* ------------------------------------------------------------------------
\* The locator and the updaters called on a document
\* ------------------------------------------------------------------------

\* The nesting depth of the documents.
MaxDepth == 3

\* The scalars of the documents: a link, a string that is no link, a number.
Leaves == {StrV(L_A), StrV(L_OTHER), NumV}

RECURSIVE DocsUpTo(_)
\* The documents nested at most n deep: mappings with a "url" or a "title"
\* field, mappings with both, sequences of one and of two items.
DocsUpTo(n) ==
    IF n = 0 THEN Leaves
    ELSE With(DocsUpTo(n - 1), LAMBDA D :
            D \cup {DictV(<<Item(k, d)>>) : k \in {S_url, S_title}, d \in D}
              \cup {ListV(<<d>>) : d \in D}
              \cup {DictV(<<Item(S_url, e), Item(S_title, d)>>) : e \in Leaves, d \in D}
              \cup {ListV(<<e, d>>) : e \in Leaves, d \in D})

UpdaterDocuments == DocsUpTo(MaxDepth)

\* The mappings: empty, one link, a link whose token is another key (in both
\* orders of insertion), a key that is no vcloud link.
UpdaterMaps ==
    { <<>>,
      <<<<L_A, S_TOK1>>>>,
      <<<<L_A, L_B>>, <<L_B, S_TOK1>>>>,
      <<<<L_B, S_TOK1>>, <<L_A, L_B>>>>,
      <<<<L_OTHER, S_TOK1>>>> }

\* No call of the locator or of an updater.
UpdaterIdle ==
    /\ u_data = NumV
    /\ results_map = <<>>
    /\ links_list = <<>>
    /\ u_raised = FALSE
    /\ u_mode = "none"
    /\ u_pc = "idle"
    /\ u_input = NumV
    /\ u_once = NumV

\* A document and a mapping, before any call.
UpdaterInit ==
    /\ u_data \in UpdaterDocuments
    /\ results_map \in UpdaterMaps
    /\ links_list = <<>>
    /\ u_raised = FALSE
    /\ u_mode = "none"
    /\ u_pc = "start"
    /\ u_input = u_data
    /\ u_once = NumV

\* find_vcloud_links(data) is called: it returns the links and assigns to
\* nothing inside data.
Locate ==
    /\ UNCHANGED <<nonUpdaterVars, u_data, results_map, u_raised, u_mode, u_input,
                   u_once>>
    /\ u_pc = "start"
    /\ links_list' = find_vcloud_links(u_data)
    /\ u_pc' = "located"

\* update_json_with_results(data, results_map) is called, a first and a
\* second time: data is changed in place, up to the point where the call
\* raises.
Update ==
    /\ UNCHANGED <<nonUpdaterVars, results_map, links_list, u_input>>
    /\ u_pc \in {"located", "updated"}
    /\ u_mode \in {"none", "update"}
    /\ ~u_raised
    /\ \E r \in {update_json_with_results(u_data, results_map)} :
          /\ u_data' = r.doc
          /\ u_raised' = ~r.ok
          /\ u_once' = IF u_pc = "located" THEN r.doc ELSE u_once
    /\ u_mode' = "update"
    /\ u_pc' = IF u_pc = "located" THEN "updated" ELSE "twice"

\* The substitution loop of process_json_file (lines 471-485) is run on data
\* with results_map as the record, a first and a second time.
Substitute ==
    /\ UNCHANGED <<nonUpdaterVars, results_map, links_list, u_raised, u_input>>
    /\ u_pc \in {"located", "updated"}
    /\ u_mode \in {"none", "substitute"}
    /\ \E d \in {SubstituteAll(u_data, results_map)} :
          /\ u_data' = d
          /\ u_once' = IF u_pc = "located" THEN d ELSE u_once
    /\ u_mode' = "substitute"
    /\ u_pc' = IF u_pc = "located" THEN "updated" ELSE "twice"

\* ------------------------------------------------------------------------
\* test.py: the single-link variant of the two functions
\* ------------------------------------------------------------------------

\* test.py, line 156.
test_max_redirects == 10

\* test.py, line 163: while redirect_count < max_redirects.
test_LoopCond(count) == count < test_max_redirects

\* test.py, lines 165-194: what one iteration does with its response.
test_FollowHop(resp) ==
    IF Truthy(resp.location)
    THEN [kind |-> "location", url |-> resp.location.val]
    ELSE With(meta_refresh_match(resp.text), LAMBDA m :
         With(unquote(m.val), LAMBDA meta_url :
         With(urlparse(resp.url), LAMBDA parsed_base :
             IF ~m.ok THEN [kind |-> "terminal", url |-> <<>>]
             ELSE IF \/ StartsAt(meta_url, S_http_prefix, 1)
                     \/ StartsAt(meta_url, S_https_prefix, 1)
             THEN [kind |-> "meta", url |-> meta_url]
             ELSE IF ~parsed_base.ok THEN [kind |-> "raise", url |-> <<>>]
             ELSE [kind |-> "meta",
                   url |-> parsed_base.scheme \o S_colon_slashes
                           \o parsed_base.netloc \o meta_url])))

\* test.py, lines 210-230: the extraction from the terminal response.
test_ExtractStart(url, text) ==
    With(start_param_list(url), LAMBDA in_query :
    With(start_match(text), LAMBDA in_body :
        IF ~urlparse(url).ok THEN None
        ELSE IF in_query # <<>> THEN Some(in_query[1])
        ELSE IF in_body.ok THEN in_body
        ELSE final_url_start_match(url)))

\* test.py, lines 163-205: the loop, its break and its else clause.
RECURSIVE test_FollowLoop(_, _, _, _, _)
test_FollowLoop(url, count, script, i, last) ==
    IF ~test_LoopCond(count) THEN test_ExtractStart(last.url, last.text)
    ELSE IF ~CanRequest(url) \/ i > Len(script) THEN None
    ELSE IF script[i].raises THEN None
    ELSE With(Response(url, script[i]), LAMBDA resp :
         With(test_FollowHop(resp), LAMBDA hop :
             IF hop.kind \in {"location", "meta"}
             THEN test_FollowLoop(hop.url, count + 1, script, i + 1, resp)
             ELSE IF hop.kind = "raise" THEN None
             ELSE test_ExtractStart(resp.url, resp.text)))

\* test.py, lines 135-230.
test_follow_redirect_chain_and_extract_start(decoded_r_url, script) ==
    test_FollowLoop(decoded_r_url, 0, script, 1, NoResponse)

\* test.py, lines 97-132: the re2 payload of the landed URL and the r
\* parameter inside it; no captcha branch and no fallback.
test_Stage6(url) ==
    With(ReGroup(url, {S_re2}, ExclSlash, 1), LAMBDA re2_match :
    With(b64decode_utf8(unquote_plus(re2_match.val)), LAMBDA decoded_re2 :
    With(ReGroup(decoded_re2.val, {S_q_r, S_amp_r}, ExclAmp, 0), LAMBDA r_match :
    With(b64decode_utf8(unquote_plus(r_match.val)), LAMBDA decoded_r :
        IF ~re2_match.ok THEN Raise("no_re2")
        ELSE IF ~decoded_re2.ok THEN Raise("decode_re2")
        ELSE IF ~r_match.ok THEN Raise("no_r")
        ELSE IF ~decoded_r.ok THEN Raise("decode_r")
        ELSE Ok(decoded_r.val)))))

\* test.py, lines 14-132: the link is fetched as it is (no API stage), the
\* hubcloud URL is built from the page (lines 44-89, the text of lines 80-113
\* of the batch runner) and the URL landed on is decoded.
test_get_hubcloud_url_from_vcloud(link, script) ==
    With(Get(link, script, 1), LAMBDA r1 :
    With(IF r1.raises THEN Raise("request") ELSE AmpStage(r1.text), LAMBDA s1 :
    With(Get(s1.val, script, 2), LAMBDA r2 :
        IF ~s1.ok THEN s1
        ELSE IF r2.raises THEN Raise("request")
        ELSE test_Stage6(r2.landed))))

\* --- the inputs the two variants are called on ---------------------------

\* A page that holds the anchor of an API page and an AMP URL.
H_ANCHOR_AMP == H_ANCHOR \o H_AMP

\* A captcha URL with the re2 segment of F_RE2 in its path and no continue
\* parameter.
F_SORRY_RE2 == <<104, 116, 116, 112, 115, 58, 47, 47, 119, 119, 119, 46, 103, 111, 111, 103, 108, 101, 46, 99, 111, 109, 47, 115, 111, 114, 114, 121, 47, 114, 101, 50, 47, 101, 106, 57, 121, 80, 87, 70, 73, 85, 106, 66, 106, 83, 69, 48, 50, 84, 72, 107, 53, 98, 48, 120, 116, 79, 88, 86, 97, 85, 122, 108, 111, 47, 120>>    \* "https://www.google.com/sorry/re2/ej9yPWFIUjBjSE02THk5b0xtOXVaUzlo/x"
VariantLanded == ProtocolLanded \cup {F_SORRY_RE2}

\* An answer read for its text by one variant and for the URL it landed on
\* by the other.
PageLanded(text, url) == [raises |-> FALSE, text |-> text, landed |-> url]

\* The answers to the first, second and third request of a call.
VariantScripts(link) ==
    {<<r1, r2, r3>> :
        r1 \in {Failure} \cup {Page(h) : h \in ProtocolPages \cup {H_ANCHOR_AMP}},
        r2 \in {Failure} \cup {PageLanded(h, u) : h \in {H_AMP, H_NONE},
                                                  u \in VariantLanded},
        r3 \in {Failure} \cup IF IsApiStyle(link)
                              THEN {Landed(u) : u \in VariantLanded} ELSE {}}

\* The chains of answers the followers meet: every chain of up to two
\* answers, and chains that never stop redirecting.
ChainLen == 2
VariantChains ==
    UNION {[1..n -> FollowerResponses] : n \in 0..ChainLen}
        \cup {[i \in 1..(max_redirects + 1) |-> net] :
                 net \in {Net(FALSE, Some(U_B), <<>>), Net(FALSE, None, T_META_ABS)}}

\* The outcome of a call: whether it returned, and what.
Outcome(r) == [ok |-> r.ok, val |-> IF r.ok THEN r.val ELSE <<>>]

VariantIdle ==
    /\ v_mode = "none"
    /\ v_input = <<>>
    /\ v_script = <<>>
    /\ v_batch = Outcome(None)
    /\ v_debug = Outcome(None)
    /\ v_pc = "idle"

VariantInit ==
    /\ v_mode \in {"protocol", "follower"}
    /\ v_input \in IF v_mode = "protocol" THEN ProtocolInputs ELSE FollowerInputs
    /\ v_script \in IF v_mode = "protocol" THEN VariantScripts(v_input)
                                           ELSE VariantChains
    /\ v_batch = Outcome(None)
    /\ v_debug = Outcome(None)
    /\ v_pc = "start"

\* get_hubcloud_url_from_vcloud of both files called on the link.
CallProtocols ==
    /\ UNCHANGED <<nonVariantVars, v_mode, v_input, v_script>>
    /\ v_pc = "start"
    /\ v_mode = "protocol"
    /\ v_batch' = Outcome(get_hubcloud_url_from_vcloud(v_input, v_script))
    /\ v_debug' = Outcome(test_get_hubcloud_url_from_vcloud(v_input, v_script))
    /\ v_pc' = "done"

\* follow_redirect_chain_and_extract_start of both files called on the URL.
CallFollowers ==
    /\ UNCHANGED <<nonVariantVars, v_mode, v_input, v_script>>
    /\ v_pc = "start"
    /\ v_mode = "follower"
    /\ v_batch' = Outcome(follow_redirect_chain_and_extract_start(v_input, v_script))
    /\ v_debug' = Outcome(test_follow_redirect_chain_and_extract_start(v_input,
                                                                       v_script))
    /\ v_pc' = "done"

\* ------------------------------------------------------------------------
\* process_vcloud_link, step by step: the calls of one worker
\* ------------------------------------------------------------------------

\* time.sleep(5), line 319.
InterStageDelay == 5

\* The links one worker takes from the queue, one after the other.
MaxCalls == 2

\* No call of process_vcloud_link.
LinkIdle ==
    /\ l_pc = "idle"
    /\ delay = 0
    /\ calls = 0
    /\ used_before = {}

\* Line 316: the first call has entered get_hubcloud_url_from_vcloud.
LinkInit ==
    /\ l_pc = "protocol"
    /\ delay = 0
    /\ calls = 1
    /\ used_before = {}

\* The follower goes ahead without waiting.
DelaySkipped == TRUE

\* time.sleep(5) returns when the five seconds have passed.
DelayElapsed == delay = InterStageDelay

\* The follower is handed the client of the protocol.
ChainClientShared == p_client

\* Line 250: with httpx.Client() as client, for the redirect chain.
ChainClient == NewClient

\* Lines 316-319: the protocol has returned decoded_r_url and the worker
\* goes to sleep. Of the protocol's frame the value returned is left; the
\* clients it created stay on record.
LinkSleep ==
    /\ UNCHANGED <<nonLinkVars, followerVars, delay, calls, used_before>>
    /\ UNCHANGED <<source_link, p_pc, p_error, p_result, p_client, client_of>>
    /\ l_pc = "protocol"
    /\ p_pc = "returned"
    /\ l_pc' = "sleep"
    /\ vcloud_url' = <<>>
    /\ html_response' = <<>>
    /\ hubcloud_url' = <<>>
    /\ final_url' = <<>>
    /\ requests' = <<>>

\* Line 319: one second of the delay passes.
LinkTick ==
    /\ UNCHANGED <<nonLinkVars, followerVars, protocolVars, l_pc, calls,
                   used_before>>
    /\ l_pc = "sleep"
    /\ delay < InterStageDelay
    /\ delay' = delay + 1

\* Lines 322 and 246-250: the follower is called on decoded_r_url and
\* creates its client.
LinkFollow ==
    /\ UNCHANGED <<nonLinkVars, protocolVars, delay, calls, used_before>>
    /\ l_pc = "sleep"
    /\ DelayElapsed
    /\ l_pc' = "follower"
    /\ current_url' = p_result
    /\ redirect_count' = 0
    /\ response' = NoResponse
    /\ final_redirect_url' = <<>>
    /\ final_response_php' = NoResponse
    /\ f_pc' = "loop"
    /\ f_exit' = "none"
    /\ f_error' = "none"
    /\ f_result' = <<>>
    /\ gets' = 0
    /\ f_client' = ChainClient

\* Line 324: the follower returned the start parameter.
LinkReturn ==
    /\ UNCHANGED <<nonLinkVars, followerVars, protocolVars, delay, calls,
                   used_before>>
    /\ l_pc = "follower"
    /\ f_pc = "returned"
    /\ l_pc' = "returned"

\* Lines 325-327: the protocol or the follower raised; None is returned.
LinkExcept ==
    /\ UNCHANGED <<nonLinkVars, followerVars, protocolVars, delay, calls,
                   used_before>>
    /\ \/ l_pc = "protocol" /\ p_pc = "raised"
       \/ l_pc = "follower" /\ f_pc = "raised"
    /\ l_pc' = "none"

\* The worker takes the next link from the queue and calls
\* process_vcloud_link for it.
LinkNext ==
    /\ UNCHANGED nonLinkVars
    /\ l_pc \in {"returned", "none"}
    /\ calls < MaxCalls
    /\ calls' = calls + 1
    /\ used_before' = used_before \cup ClientsOfCall
    /\ delay' = 0
    /\ l_pc' = "protocol"
    /\ source_link' \in ProtocolInputs
    /\ vcloud_url' = source_link'
    /\ html_response' = <<>>
    /\ hubcloud_url' = <<>>
    /\ final_url' = <<>>
    /\ p_pc' = "start"
    /\ p_error' = "none"
    /\ p_result' = <<>>
    /\ requests' = <<>>
    /\ p_client' = 0
    /\ client_of' = <<>>
    /\ current_url' = <<>>
    /\ redirect_count' = 0
    /\ response' = NoResponse
    /\ final_redirect_url' = <<>>
    /\ final_response_php' = NoResponse
    /\ f_pc' = "idle"
    /\ f_exit' = "none"
    /\ f_error' = "none"
    /\ f_result' = <<>>
    /\ gets' = 0
    /\ f_client' = 0

\* ------------------------------------------------------------------------
\* Specifications
\* ------------------------------------------------------------------------

\* One worker calling process_vcloud_link for one link after another, on
\* every response of the network.
LinkStep == LinkSleep \/ LinkTick \/ LinkFollow \/ LinkReturn \/ LinkExcept \/ LinkNext

LinkRequestNext == ProtoApiFetch \/ ProtoInitialFetch \/ ProtoSecondaryFetch
                       \/ FollowGet \/ FollowBound \/ FollowExtract

LinkAlone == LinkInit /\ ProtocolInit /\ FollowerIdle /\ EngineIdle /\ UpdaterIdle
                 /\ VariantIdle

SpecLink == LinkAlone /\ [][LinkStep \/ LinkRequestNext]_vars

\* The functions of the two files called on every link, URL and network.
VariantNext == CallProtocols \/ CallFollowers

VariantAlone == VariantInit /\ FollowerIdle /\ ProtocolIdle /\ EngineIdle
                    /\ UpdaterIdle /\ LinkIdle

SpecVariants == VariantAlone /\ [][VariantNext]_vars

\* The locator and the updaters called on every document and mapping.
UpdaterNext == Locate \/ Update \/ Substitute

UpdaterAlone == UpdaterInit /\ FollowerIdle /\ ProtocolIdle /\ EngineIdle /\ LinkIdle
                 /\ VariantIdle

SpecUpdater == UpdaterAlone /\ [][UpdaterNext]_vars

\* The redirect-chain follower called on every input and response chain.
FollowerNext == FollowGet \/ FollowBound \/ FollowExtract

FollowerAlone == FollowerInit /\ ProtocolIdle /\ EngineIdle /\ UpdaterIdle /\ LinkIdle
                 /\ VariantIdle

SpecFollower == FollowerAlone /\ [][FollowerNext]_vars

\* The resolution protocol called on every link and every response.
ProtocolNext == ProtoApiFetch \/ ProtoInitialFetch \/ ProtoSecondaryFetch

ProtocolAlone == ProtocolInit /\ FollowerIdle /\ EngineIdle /\ UpdaterIdle /\ LinkIdle
                 /\ VariantIdle

SpecProtocol == ProtocolAlone /\ [][ProtocolNext]_vars

\* The batch engine with interruptions, write faults and later invocations.
EngineNext ==
    \/ StartRun
    \/ \E i \in TaskIds : WorkerStart(i)
    \/ \E i \in TaskIds : WorkerFinish(i)
    \/ \E i \in TaskIds : Collect(i)
    \/ SaveOpen
    \/ SaveFault
    \/ SaveFlush
    \/ SaveClose
    \/ Report
    \/ Finish
    \/ Interrupt
    \/ Rerun

EngineAlone == EngineInit /\ FollowerIdle /\ ProtocolIdle /\ UpdaterIdle /\ LinkIdle
                 /\ VariantIdle

SpecEngine == EngineAlone /\ [][EngineNext]_vars

\* One invocation of the engine in which the process is not killed and the
\* checkpoint file can be written. Every thread that can take a step
\* eventually takes one: a request returns or raises, the main loop goes on.
EngineRunNext ==
    \/ StartRun
    \/ \E i \in TaskIds : WorkerStart(i)
    \/ \E i \in TaskIds : WorkerFinish(i)
    \/ \E i \in TaskIds : Collect(i)
    \/ SaveOpen
    \/ SaveFlush
    \/ SaveClose
    \/ Report
    \/ Finish

SpecEngineFair ==
    EngineAlone /\ [][EngineRunNext]_vars /\ WF_vars(EngineRunNext)

\* ------------------------------------------------------------------------
\* Properties of the redirect-chain follower (checked under SpecFollower)
\* ------------------------------------------------------------------------

\* C7: the follower issues at most max_redirects (10) GET requests on every
\* response chain. When the chain never stops redirecting it leaves the loop
\* after exactly that many requests, takes the response of the last request
\* it issued as the terminal response (its URL is the URL last requested, not
\* the target that response redirects to) and goes on to the extraction;
\* after the bound it raises only if the extraction finds no start parameter.
C7_FollowerBounded ==
    /\ gets <= max_redirects
    /\ redirect_count <= max_redirects
    /\ f_exit = "bound" =>
          /\ gets = max_redirects
          /\ redirect_count = max_redirects
          /\ f_pc \in {"extract", "returned", "raised"}
          /\ response # NoResponse
          /\ final_response_php = response
          /\ final_redirect_url = response.url
          /\ f_pc = "raised" =>
                /\ f_error = "no_start"
                /\ start_param_list(final_redirect_url) = <<>>
                /\ ~start_match(final_response_php.text).ok
                /\ ~final_url_start_match(final_redirect_url).ok

\* C7 witness: a chain that redirected at every request was cut at the bound
\* and the start parameter was extracted from the tenth response.
C7_Witness ==
    /\ f_exit = "bound"
    /\ gets = max_redirects
    /\ Truthy(final_response_php.location)
    /\ f_pc = "returned"

\* C8: the value returned on the terminal response is (a) the first 'start'
\* query parameter of the terminal URL when there is one, whatever the body
\* holds; (b) otherwise the percent-decoded first start= value of the body;
\* (c) otherwise the percent-decoded start= value found in the text of the
\* terminal URL; the extraction raises exactly when none of the three
\* matches. In particular a body holding start=ABC123 under a URL without a
\* start query parameter yields ABC123.
C8_ExtractionPriority ==
    LET url == final_redirect_url
        text == final_response_php.text
        a == start_param_list(url)
        b == start_match(text)
        c == final_url_start_match(url)
    IN  /\ f_pc = "returned" =>
              /\ a # <<>> => f_result = a[1]
              /\ a = <<>> /\ b.ok => f_result = b.val
              /\ a = <<>> /\ ~b.ok => c.ok /\ f_result = c.val
              /\ url = U_TOK1 => f_result = S_TOK1
              /\ url = U_A /\ text = T_BODY_START => f_result = S_ABC123
              /\ url = U_FRAG /\ text = T_BODY_START => f_result = S_ABC123
              /\ url = U_FRAG /\ text = T_BODY_ENC => f_result = S_A_plus_B
              /\ url = U_FRAG /\ text = <<>> => f_result = S_TOK2
        /\ f_pc = "raised" /\ f_exit # "none" =>
              a = <<>> /\ ~b.ok /\ ~c.ok /\ f_error = "no_start"
        /\ f_exit # "none" /\ a = <<>> /\ ~b.ok /\ ~c.ok =>
              f_pc \in {"extract", "raised"}

\* C8 witness: the terminal URL has no start query parameter, the body holds
\* start=ABC123, and ABC123 was returned.
C8_Witness ==
    /\ f_pc = "returned"
    /\ final_redirect_url = U_A
    /\ final_response_php.text = T_BODY_START
    /\ f_result = S_ABC123

\* C9 as stated: a response with a Location header sends the follower to that
\* target even when the body holds url=; without the header the url= target
\* of the body is adopted; and a response is terminal before the bound if and
\* only if it has neither a Location header nor a url= occurrence in its body.
C9_HopSelectionAsStated ==
    response # NoResponse =>
        /\ response.location.ok => current_url = response.location.val
        /\ ~response.location.ok /\ Contains(response.text, S_url_eq)
              /\ f_error # "urlparse"
              => f_exit # "break" /\ current_url # response.url
        /\ f_exit = "break" <=>
              ~response.location.ok /\ ~Contains(response.text, S_url_eq)

\* C9 as amended: a response with a non-empty Location header sends the
\* follower to that target even when the body holds url=; only without such
\* a header is the url= target of the body adopted (percent-decoded, and
\* prefixed with the scheme and host of the response's URL when it is
\* relative); and a response is terminal before the bound if and only if it
\* has no non-empty Location header and its body holds no url= that is
\* directly followed by a character other than a quote, '&', whitespace,
\* '<' or '>'.
C9_HopSelection ==
    LET m == ReGroup(response.text, {S_url_eq}, ExclRefresh, 1)
        target == unquote(m.val)
        base == urlparse(response.url)
    IN  response # NoResponse =>
        /\ Truthy(response.location) =>
              current_url = response.location.val /\ f_exit # "break"
        /\ ~Truthy(response.location) /\ m.ok /\ f_error # "urlparse" =>
              /\ f_exit # "break"
              /\ current_url =
                    IF StartsAt(target, S_http_prefix, 1) \/ StartsAt(target, S_https_prefix, 1)
                    THEN target
                    ELSE base.scheme \o S_colon_slashes \o base.netloc \o target
        /\ f_exit = "break" <=> ~Truthy(response.location) /\ ~m.ok

\* C9 witness: a response carried both a Location header and a url= directive
\* with a different target, and the follower moved to the Location target.
C9_Witness ==
    /\ response.location = Some(U_B)
    /\ response.text = T_META_ABS
    /\ current_url = U_B
    /\ redirect_count = 1

\* ------------------------------------------------------------------------
\* Properties of the batch engine (checked under SpecEngine)
\* ------------------------------------------------------------------------

\* The links of the tasks submitted in this invocation, in order.
Submitted == [i \in TaskIds |-> tasks[i].url]

\* The tasks of url the main loop has taken from as_completed.
CollectedOf(url) == {i \in TaskIds : tasks[i].url = url /\ tasks[i].collected}

\* C1: in every invocation, whatever record the checkpoint file held and
\* whatever the document, no link that is a key of the record loaded at the
\* start is submitted to process_vcloud_link, and the tasks submitted are
\* exactly the occurrences, in document order, of the links that are no key
\* of that record.
C1_ResumeSkipsDoneLinks ==
    pc \in InRun \cup {"done"} =>
        /\ \A i \in TaskIds : tasks[i].url \notin Keys(loaded)
        /\ Submitted = SelectSeq(find_vcloud_links(data),
                                 LAMBDA url : url \notin Keys(loaded))

\* C1 witness: a run resumed from a checkpoint that holds a link of the
\* document, with other links submitted and a worker already at work.
C1_Witness ==
    /\ pc \in InRun
    /\ \E k \in 1..Len(find_vcloud_links(data)) :
           find_vcloud_links(data)[k] \in Keys(loaded)
    /\ \E i \in TaskIds : tasks[i].state # "Pending"

\* C2: when an invocation reaches the end, in whatever order the tasks
\* completed, the record in the checkpoint file is the record held in
\* memory; its keys are the keys loaded at the start together with the links
\* resolved in this invocation; every entry loaded is still there; the entry
\* of a link resolved in this invocation holds a token a task of that link
\* returned; and no key occurs twice.
C2_NoLostEntries ==
    pc = "done" =>
        /\ load_progress(file) = Some(progress)
        /\ Keys(progress) =
               Keys(loaded) \cup {tasks[i].url : i \in {j \in TaskIds :
                                                      tasks[j].state = "Resolved"}}
        /\ Entries(loaded) \subseteq Entries(progress)
        /\ \A i \in TaskIds :
               tasks[i].state = "Resolved" =>
                   \E j \in TaskIds : /\ tasks[j].url = tasks[i].url
                                      /\ tasks[j].state = "Resolved"
                                      /\ <<tasks[i].url, tasks[j].val>> \in Entries(progress)
        /\ Len(progress) = Cardinality(Keys(progress))

\* C2 witness: a resumed invocation ended in which two tasks of the same
\* link resolved to different tokens.
C2_Witness ==
    /\ pc = "done"
    /\ loaded # <<>>
    /\ \E i, j \in TaskIds :
           /\ tasks[i].url = tasks[j].url
           /\ tasks[i].state = "Resolved"
           /\ tasks[j].state = "Resolved"
           /\ tasks[i].val # tasks[j].val

C4_FileAlwaysValidJson == file.state \in {"absent", "complete"}

\* C5 as stated: the record load_progress returns at the start of an
\* invocation holds every entry that had been persisted before.
C5_InterruptionKeepsPersisted ==
    pc = "start" =>
        /\ load_progress(file).ok
        /\ Entries(persisted) \subseteq Entries(load_progress(file).val)

RECURSIVE SubstituteExact(_, _)
\* The document with every "url" field whose string is a key of the record
\* holding the entry of that key, and nothing else changed.
SubstituteExact(d, record) ==
    IF d.t \notin {"dict", "list"} THEN d
    ELSE [d EXCEPT !.items = [i \in 1..Len(d.items) |->
            IF /\ d.t = "dict"
               /\ d.items[i].k = S_url
               /\ d.items[i].v.t = "str"
            THEN IF d.items[i].v.s \in Keys(record)
                 THEN Item(S_url, StrV(DictGet(record, d.items[i].v.s)))
                 ELSE d.items[i]
            ELSE Item(d.items[i].k, SubstituteExact(d.items[i].v, record))]]

\* C17 as stated: in the document written, every "url" field whose input
\* value is a key of the final record holds the entry of that key, every
\* other link keeps its URL, and everything else is as in the input.
C17_OutputExactSubstitutionAsStated ==
    pc = "done" =>
        /\ output.written
        /\ output.doc = SubstituteExact(data, progress)

\* C19 as stated: an entry of the record, loaded or stored, is never removed
\* and its token never changes, neither during the run nor from what one
\* run persisted to what the next run loads.
C19_AppendOnlyAsStated ==
    [][/\ pc \in InRun /\ pc' \in InRun \cup {"done"} =>
             Entries(progress) \subseteq Entries(progress')
       /\ pc = "start" /\ pc' \in InRun =>
             Entries(persisted) \subseteq Entries(progress')]_vars

\* The calls of process_vcloud_link run the protocol and then the follower
\* on the URL the protocol returned, and end after the protocol when it
\* raises.
WorkerCallsSequential ==
    \A c \in EngineLinks \X Scripts :
        With(get_hubcloud_url_from_vcloud(c[1], c[2].proto), LAMBDA decoded_r_url :
        With(process_vcloud_link(c[1], c[2]), LAMBDA result :
            /\ ~decoded_r_url.ok => ~result.ok /\ result.stage = "protocol"
            /\ decoded_r_url.ok =>
                  With(follow_redirect_chain_and_extract_start(decoded_r_url.val,
                                                               c[2].chain),
                       LAMBDA start_param :
                      /\ result.ok = start_param.ok
                      /\ result.ok => result.val = start_param.val
                      /\ ~result.ok => result.stage = "follower")))

\* C20: at every instant at most num_workers submitted links are being
\* resolved; a link waits as long as num_workers others are; and the call a
\* worker makes for a link runs the protocol and then the follower.
C20_BoundedWorkerPool ==
    /\ Cardinality({i \in TaskIds : tasks[i].state = "Resolving"}) <= num_workers
    /\ \A i \in TaskIds :
           tasks[i].state = "Resolving" =>
               \A j \in 1..(i - 1) : tasks[j].state # "Pending"
    /\ WorkerCallsSequential

\* C20 witness: every worker of the pool is resolving a link and another
\* link is waiting.
C20_Witness ==
    /\ pc \in InRun
    /\ Cardinality({i \in TaskIds : tasks[i].state = "Resolving"}) = num_workers
    /\ \E i \in TaskIds : tasks[i].state = "Pending"

\* ------------------------------------------------------------------------
\* Properties of one uninterrupted invocation (checked under SpecEngineFair)
\* ------------------------------------------------------------------------

\* C6: whichever tasks fail, the invocation is never aborted, and it
\* eventually reaches the point where every task submitted has resolved or
\* failed and the output document has been written (every request returns
\* or raises: a thread that can take a step eventually takes one).
C6_FailureNeverAborts ==
    /\ [](pc # "aborted")
    /\ <>(/\ pc = "done"
          /\ output.written
          /\ \A i \in TaskIds : tasks[i].state \in {"Resolved", "Failed"})

\* C6 witness: the output was written after one task failed and another
\* resolved.
C6_Witness ==
    /\ pc = "done"
    /\ output.written
    /\ \E i, j \in TaskIds : /\ tasks[i].state = "Failed"
                             /\ tasks[j].state = "Resolved"

\* ------------------------------------------------------------------------
\* Properties of the resolution protocol (checked under SpecProtocol)
\* ------------------------------------------------------------------------

\* C10 as stated: the fetch that follows the fetch of an API-style link is
\* never issued to the API URL.
C10_ApiRetargetedAsStated ==
    IsApiStyle(source_link) /\ Len(requests) >= 2 => requests[2] # source_link

\* C10: an API-style link is fetched first; the initial fetch that follows
\* goes to the URL captured by the first href="https://vcloud.zip/..." of
\* that response (double-quoted, whatever that URL is); when the response
\* holds no such href the protocol raises after that one request. A link
\* without the marker is the first URL requested.
C10_ApiRetargeted ==
    /\ requests # <<>> => requests[1] = source_link
    /\ IsApiStyle(source_link) =>
           /\ p_pc = "fetch" =>
                  /\ actual_url_match(html_response).ok
                  /\ vcloud_url = actual_url_match(html_response).val
                  /\ requests = <<source_link>>
           /\ Len(requests) >= 2 => requests[2] = vcloud_url
           /\ p_error = "no_anchor" =>
                  /\ p_pc = "raised"
                  /\ requests = <<source_link>>
                  /\ ~actual_url_match(html_response).ok
    /\ ~IsApiStyle(source_link) =>
           /\ vcloud_url = source_link
           /\ p_pc # "fetch"
           /\ p_error # "no_anchor"
           /\ Len(requests) >= 2 => requests[2] = hubcloud_url

\* C10 witness: the initial fetch of an API-style link went to the link of
\* the anchor, another URL than the API URL.
C10_Witness ==
    /\ IsApiStyle(source_link)
    /\ p_pc = "secondary"
    /\ Len(requests) = 2
    /\ requests[1] = source_link
    /\ requests[2] # source_link
    /\ requests[2] = actual_url_match(H_ANCHOR).val

\* ------------------------------------------------------------------------
\* Properties of stage 6 of the protocol (checked under SpecProtocol)
\* ------------------------------------------------------------------------

\* re.search(r're2/([^/]+)', url), re.search(r'[?&]r=([^&]*)', url) and
\* re.search(r'continue=([^&]*)', url).
re2_match(url) == ReGroup(url, {S_re2}, ExclSlash, 1)
r_match(url) == ReGroup(url, {S_q_r, S_amp_r}, ExclAmp, 0)
continue_match(url) == ReGroup(url, {S_continue}, ExclAmp, 0)

\* The secondary fetch landed on final_url and the call has ended.
Landing == p_pc \in {"returned", "raised"} /\ final_url # <<>>

\* How the call ended: the URL returned, or the reason it raised.
ProtocolOutcome == IF p_pc = "returned" THEN Ok(p_result) ELSE Raise(p_error)

\* Base64 text decoded after a percent-decoding that leaves '+' as it is.
DecodePlusKept(text) == b64decode_utf8(unquote(text))

\* The number of positions of s that hold the character c.
Count(s, c) == Cardinality({i \in 1..Len(s) : s[i] = c})

\* The number of %2B (or %2b) escapes of s.
CountPlusEscapes(s) ==
    Cardinality({i \in 1..Len(s) : StartsAt(s, <<37, 50, 66>>, i)
                                      \/ StartsAt(s, <<37, 50, 98>>, i)})

\* C11 as stated: when the landed URL (no captcha marker) holds an
\* re2/<payload> segment, the call returns the base64-decoded r parameter of
\* the inner URL the payload decodes to, raises when the payload cannot be
\* decoded or the inner URL has no r parameter, and never returns the landed
\* URL or the decoded r parameter of the landed URL instead.
C11_Re2BranchAsStated ==
    Landing /\ ~Contains(final_url, S_sorry) /\ re2_match(final_url).ok =>
        LET inner == DecodePlusKept(re2_match(final_url).val)
            r == r_match(inner.val)
            out == DecodePlusKept(r.val)
        IN  IF inner.ok /\ r.ok /\ out.ok
            THEN ProtocolOutcome = Ok(out.val)
            ELSE p_pc = "raised"

\* C12: when the landed URL holds the marker google.com/sorry and a
\* continue= parameter, the call ends as stage 6 ends on the percent-decoded
\* value of that parameter taken as the landed URL (the same URL returned,
\* or the same failure); when the marker is there and no continue= is, the
\* call raises for that reason, whatever re2 segment or r parameter the
\* interstitial URL holds.
C12_CaptchaEqualsStage6 ==
    Landing /\ Contains(final_url, S_sorry) =>
        IF continue_match(final_url).ok
        THEN ProtocolOutcome = Stage6(unquote(continue_match(final_url).val))
        ELSE ProtocolOutcome = Raise("no_continue")

\* C12 witness: the call landed on a captcha page whose continue URL holds
\* an re2 payload, and returned the URL decoded from it.
C12_Witness ==
    /\ Landing
    /\ Contains(final_url, S_sorry)
    /\ continue_match(final_url).ok
    /\ re2_match(unquote(continue_match(final_url).val)).ok
    /\ p_pc = "returned"
    /\ p_result = U_A

\* C13 as stated: when the landed URL (no captcha marker) holds no re2
\* segment, the call returns the base64-decoded r parameter of the landed
\* URL when there is one (raising when it cannot be decoded), and the
\* landed URL itself exactly when there is none.
C13_NoRe2FallbackAsStated ==
    Landing /\ ~Contains(final_url, S_sorry) /\ ~re2_match(final_url).ok =>
        LET r == r_match(final_url)
            out == DecodePlusKept(r.val)
        IN  IF ~r.ok THEN ProtocolOutcome = Ok(final_url)
            ELSE IF out.ok THEN ProtocolOutcome = Ok(out.val)
            ELSE p_pc = "raised"

\* C14 as stated: the percent-decoding applied to the re2 payload and to the
\* r parameter before the base64 decoding keeps every '+' and turns every
\* %2B into '+', and makes no space of a '+'.
C14_PlusPreservedAsStated ==
    Landing /\ ~Contains(final_url, S_sorry) =>
        LET text == IF re2_match(final_url).ok THEN re2_match(final_url).val
                    ELSE r_match(final_url).val
        IN  /\ Count(unquote_plus(text), 43) =
                   Count(text, 43) + CountPlusEscapes(text)
            /\ Count(unquote_plus(text), 32) = 0

\* ------------------------------------------------------------------------
\* Properties of the locator and the updaters (checked under SpecUpdater)
\* ------------------------------------------------------------------------

\* The elements of a sequence.
Range(seq) == {seq[i] : i \in 1..Len(seq)}

RECURSIVE Mappings(_)
\* The mappings of a document, at every depth.
Mappings(d) ==
    IF d.t \notin {"dict", "list"} THEN {}
    ELSE (IF d.t = "dict" THEN {d} ELSE {})
         \cup UNION {Mappings(d.items[i].v) : i \in 1..Len(d.items)}

\* The strings that sit under a key "url" of some mapping of the document
\* and contain "vcloud.zip".
MarkedValues(d) ==
    {it.v.s : it \in {x \in UNION {Range(m.items) : m \in Mappings(d)} :
                         /\ x.k = S_url
                         /\ x.v.t = "str"
                         /\ Contains(x.v.s, S_vcloud_zip)}}

RECURSIVE Mirror(_)
\* The document with the items of every mapping and sequence in the
\* opposite order.
Mirror(d) ==
    IF d.t \notin {"dict", "list"} THEN d
    ELSE [d EXCEPT !.items = [i \in 1..Len(d.items) |->
            Item(d.items[Len(d.items) + 1 - i].k,
                 Mirror(d.items[Len(d.items) + 1 - i].v))]]

RECURSIVE UpdateAsLocated(_, _)
\* The document with every field the locator discovers replaced by its
\* entry in the mapping, where it has one.
UpdateAsLocated(d, map) ==
    IF d.t \notin {"dict", "list"} THEN d
    ELSE [d EXCEPT !.items = [i \in 1..Len(d.items) |->
            IF /\ d.t = "dict"
               /\ d.items[i].k = S_url
               /\ d.items[i].v.t = "str"
               /\ Contains(d.items[i].v.s, S_vcloud_zip)
            THEN IF d.items[i].v.s \in Keys(map)
                 THEN Item(S_url, StrV(DictGet(map, d.items[i].v.s)))
                 ELSE d.items[i]
            ELSE Item(d.items[i].k, UpdateAsLocated(d.items[i].v, map))]]

\* C15 as stated: applying an updater (update_json_with_results, or the
\* substitution loop of process_json_file) a second time with the same
\* mapping leaves the document as the first application left it.
C15_UpdaterIdempotentAsStated == u_pc = "twice" => u_data = u_once

\* C16 as stated: update_json_with_results returns without an error,
\* whatever the root and the items of the sequences are, and leaves the
\* document with every field that find_vcloud_links discovers and that has
\* an entry in the mapping replaced, at every depth.
C16_UpdaterSameTraversalAsStated ==
    u_mode = "update" /\ u_pc = "updated" =>
        /\ ~u_raised
        /\ u_data = UpdateAsLocated(u_input, results_map)

\* C18: the links find_vcloud_links returns are, as a set, exactly the
\* strings that sit under a key "url" in some mapping at any depth and
\* contain "vcloud.zip"; the same set is returned when the items of every
\* mapping and sequence are visited in the opposite order; and the call
\* leaves the document as it was.
C18_LocatorCompleteSound ==
    u_pc = "located" =>
        /\ Range(links_list) = MarkedValues(u_input)
        /\ Range(find_vcloud_links(Mirror(u_input))) = Range(links_list)
        /\ Len(find_vcloud_links(Mirror(u_input))) = Len(links_list)
        /\ u_data = u_input

\* C18 witness: links located in a mapping whose "url" field holds a link
\* and whose other field holds a sequence with a link two levels down.
C18_Witness ==
    /\ u_pc = "located"
    /\ u_input.t = "dict"
    /\ Len(u_input.items) = 2
    /\ u_input.items[2].v.t = "list"
    /\ links_list = <<L_A, L_A>>
    /\ find_vcloud_links(u_input.items[2].v) = <<L_A>>


\* ------------------------------------------------------------------------
\* Properties of the tasks of one run (checked under SpecEngine)
\* ------------------------------------------------------------------------

\* The moves of one task: it stays where it is, a worker takes it, or the
\* worker's call returns.
TaskMoves ==
    {<<s, s>> : s \in {"Pending", "Resolving", "Resolved", "Failed"}}
        \cup {<<"Pending", "Resolving">>, <<"Resolving", "Resolved">>,
              <<"Resolving", "Failed">>}

\* The tasks of a link (a link is its text) that a worker has taken.
StartedFor(ts, url) ==
    {i \in 1..Len(ts) : ts[i].url = url /\ ts[i].state # "Pending"}

\* C21 as stated: within a run no task is added after the submission, every
\* task moves only along Pending -> Resolving -> Resolved or Failed, and for
\* every link at most one task is ever taken by a worker, so that a link is
\* resolved at most once and a link that failed is not resolved again.
C21_LinkStateMachineAsStated ==
    [][/\ pc \in InRun /\ pc' \in InRun \cup {"done", "aborted"} =>
             /\ Len(tasks') = Len(tasks)
             /\ \A i \in TaskIds :
                    /\ tasks'[i].url = tasks[i].url
                    /\ <<tasks[i].state, tasks'[i].state>> \in TaskMoves
             /\ \A i \in TaskIds :
                    Cardinality(StartedFor(tasks', tasks[i].url)) <= 1
       /\ pc = "start" /\ pc' \in InRun =>
             \A i \in 1..Len(tasks') : tasks'[i].state = "Pending"]_vars

\* The futures the main loop has taken from as_completed.
Handled == {i \in TaskIds : tasks[i].collected}

\* C22: in a run in which save_progress returns, every future the main loop
\* takes, resolved or failed, is followed by one write of the whole record
\* and only then by its progress line: the writes finished are as many as
\* the futures handled (one fewer while the write for the current one is
\* going on), the progress lines are as many as the writes (one fewer
\* between the write and the line), and from the end of a write to the next
\* result the file holds exactly the record in memory.
C22_PersistBeforeReport ==
    pc \in InRun \cup {"done"} =>
        /\ pc \in {"collect", "done"} =>
              saves = Cardinality(Handled) /\ completed_tasks = saves
        /\ pc \in {"save", "write", "flush"} =>
              saves = Cardinality(Handled) - 1 /\ completed_tasks = saves
        /\ pc = "report" =>
              saves = Cardinality(Handled) /\ completed_tasks = saves - 1
        /\ pc \in {"collect", "report", "done"} /\ saves > 0 =>
              file = FileComplete(progress) /\ persisted = progress

\* C22 witness: the write for a failed link has finished and its progress
\* line is about to be emitted, after the one for a resolved link.
C22_Witness ==
    /\ pc = "report"
    /\ current \in TaskIds
    /\ tasks[current].state = "Failed"
    /\ saves = 2
    /\ completed_tasks = 1
    /\ \E i \in Handled : tasks[i].state = "Resolved"

\* The steps of a run in which the main loop stores a result in the record.
RecordUpdated == pc \in InRun /\ pc' \in InRun /\ progress' # progress

\* The steps in which the checkpoint file changes.
FileWritten == file' # file

\* C23 as stated: every update of the record and every change of the file
\* is made by a step that holds progress_lock, and the lock is free
\* whenever save_progress is not being executed.
C23_UpdateAndWriteUnderLockAsStated ==
    [][/\ RecordUpdated => lock_held \/ lock_held'
       /\ FileWritten => lock_held \/ lock_held'
       /\ pc' \notin {"write", "flush"} => ~lock_held']_vars

\* C23: the file changes only in steps that hold progress_lock; the record
\* is updated outside the lock, by the main loop and only while no write is
\* going on, so that no two updates or writes are in progress at once; and
\* the lock is free whenever save_progress is not being executed, whichever
\* way it was left.
C23_WritesUnderLock ==
    [][/\ RecordUpdated => ~lock_held /\ ~lock_held' /\ pc = "collect"
       /\ FileWritten => lock_held \/ lock_held'
       /\ lock_held => pc \in {"write", "flush"}
       /\ pc' \notin {"write", "flush"} => ~lock_held']_vars

\* C23 witness: a second write is going on under the lock, after the first
\* one released it and the record was updated again.
C23_Witness ==
    /\ pc = "flush"
    /\ lock_held
    /\ saves = 1
    /\ progress # persisted
    /\ file = FilePartial

\* ------------------------------------------------------------------------
\* Properties of one worker's calls (checked under SpecLink)
\* ------------------------------------------------------------------------

\* The clients the requests of the protocol went out on.
ProtocolClients == {client_of[i] : i \in 1..Len(client_of)} \cup ({p_client} \ {0})

C25_PipelineOrdering ==
    /\ f_pc # "idle" \/ gets > 0 =>
           /\ p_pc = "returned"
           /\ delay = InterStageDelay
           /\ l_pc \in {"follower", "returned", "none"}
    /\ f_pc = "loop" /\ redirect_count = 0 => current_url = p_result
    /\ l_pc = "sleep" => p_pc = "returned" /\ f_pc = "idle" /\ gets = 0
    /\ p_pc = "raised" =>
           /\ delay = 0
           /\ gets = 0
           /\ f_pc = "idle"
           /\ l_pc \in {"protocol", "none"}

\* C25 witness: the follower's first request has been answered, after the
\* delay, in a call whose protocol returned a URL.
C25_Witness ==
    /\ l_pc = "follower"
    /\ gets = 1
    /\ delay = InterStageDelay
    /\ p_pc = "returned"
    /\ p_result # <<>>

\* ------------------------------------------------------------------------
\* Properties of the two variants (checked under SpecVariants)
\* ------------------------------------------------------------------------

\* The URL the secondary fetch of test.py landed on, and whether the call
\* got that far.
DebugLanded == v_script[2].landed
DebugHasLanded ==
    /\ ~v_script[1].raises
    /\ AmpStage(v_script[1].text).ok
    /\ ~v_script[2].raises

\* The landed URL has no captcha marker and holds an re2 segment.
CommonPath ==
    /\ DebugHasLanded
    /\ ~Contains(DebugLanded, S_sorry)
    /\ re2_match(DebugLanded).ok

\* C26 as stated: the followers agree on every chain; the protocols agree
\* on every non-API link whose landed URL has no captcha marker and holds an
\* re2 segment; and wherever the protocols differ, the variant of test.py
\* fails, on an API link, a captcha page or a landed URL without re2 segment.
C26_VariantsDifferOnlyWhereDebugFailsAsStated ==
    v_pc = "done" =>
        /\ v_mode = "follower" => v_batch = v_debug
        /\ v_mode = "protocol" /\ ~IsApiStyle(v_input) /\ CommonPath =>
               v_batch = v_debug
        /\ v_mode = "protocol" /\ v_batch # v_debug =>
               /\ ~v_debug.ok
               /\ \/ IsApiStyle(v_input)
                  \/ Contains(DebugLanded, S_sorry)
                  \/ ~re2_match(DebugLanded).ok

\* C26: the followers agree on every chain; on a non-API link the protocols
\* agree whenever the landed URL has no captcha marker and holds an re2
\* segment, they differ only on a captcha URL or a landed URL without re2
\* segment, and on a landed URL without re2 segment the variant of test.py
\* fails. Nothing relates the two on an API-style link, which test.py
\* fetches as it is, nor on a captcha URL that holds an re2 segment.
C26_BatchRefinesDebug ==
    v_pc = "done" =>
        /\ v_mode = "follower" => v_batch = v_debug
        /\ v_mode = "protocol" /\ ~IsApiStyle(v_input) =>
               /\ CommonPath => v_batch = v_debug
               /\ v_batch # v_debug =>
                      /\ DebugHasLanded
                      /\ \/ Contains(DebugLanded, S_sorry)
                         \/ ~re2_match(DebugLanded).ok
               /\ DebugHasLanded /\ ~re2_match(DebugLanded).ok => ~v_debug.ok

\* C26 witness: both protocols returned the same URL for a non-API link
\* whose landed URL holds an re2 segment and no captcha marker.
C26_Witness ==
    /\ v_pc = "done"
    /\ v_mode = "protocol"
    /\ ~IsApiStyle(v_input)
    /\ CommonPath
    /\ v_debug.ok
    /\ v_batch = v_debug

\* ------------------------------------------------------------------------
\* The URLs the follower adopts (checked under SpecFollower)
\* ------------------------------------------------------------------------

\* The URL has a scheme and a host.
Absolute(url) ==
    With(urlparse(url), LAMBDA p : p.ok /\ p.scheme # <<>> /\ p.netloc # <<>>)

\* An iteration of the loop that adopted a next current URL.
Adopts ==
    /\ f_pc = "loop"
    /\ f_pc' = "loop"
    /\ redirect_count' = redirect_count + 1

\* The adopted URL came from the Location header of the response.
AdoptsLocation == Adopts /\ Truthy(response'.location)

\* C27 as stated: called on an absolute URL, every URL the follower adopts
\* as its next current URL, from a Location header or from a refresh
\* directive, is absolute.
C27_OnlyAbsoluteUrlsAsStated ==
    [][/\ Adopts
       /\ Absolute(current_url)
       => Absolute(current_url')]_vars
====
